---------------------------- MODULE Spec2Model ----------------------------
(***************************************************************************)
(* A model of pygeo's DVConstraints.py: the constraint containers          *)
(* (ThicknessConstraint, ThicknessToChordConstraint, VolumeConstraint,     *)
(* LeTeConstraint) driven by an external geometry parameterization         *)
(* (DVGeo), and the hexahedral volume kernels of VolumeConstraint.         *)
(*                                                                         *)
(* Numbers.  The code computes in floating point; the model computes in    *)
(* exact arithmetic, rounding is not modelled.                             *)
(*  - Coordinates are integers.  The coordinates handed to the volume      *)
(*    kernels are integer multiples of 24 (of Pitch = 120 before a         *)
(*    rotation), so that every division the kernels perform (by 8 in the   *)
(*    centroid, by 4 in volpym, by 6 in evalVolumeHex / evalVolumeSens)    *)
(*    is exact in the integers; ExactDiv has no value when it is not.      *)
(*  - A quotient is a fraction <<n, d>> in lowest terms with d >= 0;       *)
(*    <<0, 0>> is IEEE's nan and <<1, 0>>, <<-1, 0>> are +inf, -inf        *)
(*    (numpy divides by zero without raising).                             *)
(*  - A Euclidean norm is the square root of a fraction: Root values are   *)
(*    fractions <<n, d>> standing for sqrt(n / d).                         *)
(***************************************************************************)
EXTENDS Integers, Sequences, FiniteSets, TLC

VARIABLES
    con,        \* the constraint object under study (a record, by kind)
    DVGeo,      \* the external parameterization: point set, design variables
    funcs,      \* the funcs dictionary handed to evalFunctions
    funcsSens,  \* the funcsSens dictionary handed to evalFunctionsSens
    optProb,    \* the optimizer problem handed to the last addConstraintsPyOpt
    handle,     \* the file handle handed to the last writeTecplot
    evalAt,     \* history: <<the design variable at the last evalFunctions>>
    prev,       \* history: what the evalFunctions before the last one stored,
                \* when both ran at the same design variable
    sensLog,    \* history: the DVGeo methods the last evalFunctionsSens called
    thickCon,   \* registry study: DVConstraints.thickCon, <<key, object>> entries
    volumeCon,  \* registry study: DVConstraints.volumeCon
    LeTeCon,    \* registry study: DVConstraints.LeTeCon
    selfDVGeo,  \* registry study: DVConstraints.DVGeo, None or the DVGeo object
    ptSets,     \* registry study: the names handed to DVGeo.addPointSet, in order
    call,       \* registry study: the last call, its arguments and its outcome
    callerChordDir, \* registry study: the array the caller passes as chordDir
    soup,       \* surface study: the wing last set and self.p0, self.v1, self.v2
    nVol,       \* block study: pyBlock.nVol, the number of volumes
    proj,       \* block study: the points and the result of the last projectPoints
    attach,     \* block study: the last attachPoints and pyBlock.embeded_volumes
    hcoords,    \* kernel study: the 8 corners of one cell (flattened coords)
    hmoves,     \* kernel study: number of corner moves made so far
    hres        \* kernel study: the result of the last kernel evaluation

vars == <<con, DVGeo, funcs, funcsSens, optProb, handle, evalAt, prev,
          sensLog, thickCon, volumeCon, LeTeCon, selfDVGeo, ptSets, call,
          callerChordDir, soup, nVol, proj, attach, hcoords, hmoves, hres>>
conVars == <<con, DVGeo, funcs, funcsSens, optProb, handle, evalAt, prev,
             sensLog>>
hexVars == <<hcoords, hmoves, hres>>
regVars == <<thickCon, volumeCon, LeTeCon, selfDVGeo, ptSets, call,
             callerChordDir, soup>>
blkVars == <<nVol, proj, attach>>

\* Python dictionaries (funcs, funcsSens, jac) are functions from keys to
\* values; {} is the function of empty domain
EmptyDict == <<>>
Put(d, k, v) == [x \in (DOMAIN d) \cup {k} |-> IF x = k THEN v ELSE d[x]]

---------------------------------------------------------------------------
(* Bounds of the model *)

\* largest absolute value of the design variable
MaxDV == 1
\* number of single-coordinate moves applied to the cell of the kernel study
MaxHexMoves == 1
\* largest number of LE/TE index pairs
MaxPairs == 2
\* registry study: largest number of constraints stored by add* calls
MaxCons == 2
\* block study: largest number of volumes, of points handed to projectPoints
MaxVol == 2
MaxPts == 2

\* lattice pitch of the kernel study: 8 * 3 for the exact divisions, 5 for
\* the rotation by the (3, 4, 5) angle
Pitch == 8 * 3 * 5

---------------------------------------------------------------------------
(* Exact arithmetic *)

Abs(n) == IF n < 0 THEN -n ELSE n

RECURSIVE GCD(_, _)
GCD(a, b) == IF b = 0 THEN a ELSE GCD(b, a % b)

\* a / b for a division the lattice makes exact; no value otherwise
ExactDiv(a, b) == CHOOSE q \in {a \div b} : q * b = a

\* the fraction n / d in lowest terms, IEEE's nan and infinities included
Frac(n, d) ==
    LET s == IF d < 0 THEN -1 ELSE 1
        g == GCD(Abs(n), Abs(d))
    IN  IF g = 0 THEN <<0, 0>>
        ELSE <<ExactDiv(s * n, g), ExactDiv(s * d, g)>>

\* sqrt(n / d) as the fraction under the root; products and quotients of roots
Root(n, d) == Frac(n, d)
RootMul(a, b) == Frac(a[1] * b[1], a[2] * b[2])
RootDiv(a, b) == Frac(a[1] * b[2], a[2] * b[1])
RootOne == <<1, 1>>
RootZero == <<0, 1>>

(* 3-vectors *)
VAdd(a, b) == <<a[1] + b[1], a[2] + b[2], a[3] + b[3]>>
VSub(a, b) == <<a[1] - b[1], a[2] - b[2], a[3] - b[3]>>
VNeg(a) == <<-a[1], -a[2], -a[3]>>
VScale(k, a) == <<k * a[1], k * a[2], k * a[3]>>
VDiv(a, k) == <<ExactDiv(a[1], k), ExactDiv(a[2], k), ExactDiv(a[3], k)>>
VZero == <<0, 0, 0>>
Dot(a, b) == a[1] * b[1] + a[2] * b[2] + a[3] * b[3]

RECURSIVE SumSeq(_)
SumSeq(s) == IF s = <<>> THEN 0 ELSE Head(s) + SumSeq(Tail(s))

RECURSIVE VSumSeq(_)
VSumSeq(s) == IF s = <<>> THEN VZero ELSE VAdd(Head(s), VSumSeq(Tail(s)))

\* numpy.linalg.norm(p - q): the root of the squared distance
norm(p, q) == Root(Dot(VSub(p, q), VSub(p, q)), 1)

\* geo_utils.eDist(p, q): the Euclidean distance
eDist(p, q) == Root(Dot(VSub(p, q), VSub(p, q)), 1)

---------------------------------------------------------------------------
(* VolumeConstraint: the hexahedral volume kernels *)

\* numpy.average([x0, ..., x7], axis=0)
average(xs) == VDiv(VSumSeq(xs), Len(xs))

\* a mis-transcribed pyramid volume: the last cross-product term has the
\* wrong sign
volpymBad(a, b, c, d, p) ==
    (p[1] - ExactDiv(a[1] + b[1] + c[1] + d[1], 4))
        * ((a[2] - c[2]) * (b[3] - d[3]) - (a[3] - c[3]) * (b[2] - d[2]))
    + (p[2] - ExactDiv(a[2] + b[2] + c[2] + d[2], 4))
        * ((a[3] - c[3]) * (b[1] - d[1]) - (a[1] - c[1]) * (b[3] - d[3]))
    + (p[3] - ExactDiv(a[3] + b[3] + c[3] + d[3], 4))
        * ((a[1] - c[1]) * (b[2] - d[2]) + (a[2] - c[2]) * (b[1] - d[1]))

\* volpym: the volume (times 6) of the pyramid of base a b c d and apex p
volpym(a, b, c, d, p) ==
    (p[1] - ExactDiv(a[1] + b[1] + c[1] + d[1], 4))
        * ((a[2] - c[2]) * (b[3] - d[3]) - (a[3] - c[3]) * (b[2] - d[2]))
    + (p[2] - ExactDiv(a[2] + b[2] + c[2] + d[2], 4))
        * ((a[3] - c[3]) * (b[1] - d[1]) - (a[1] - c[1]) * (b[3] - d[3]))
    + (p[3] - ExactDiv(a[3] + b[3] + c[3] + d[3], 4))
        * ((a[1] - c[1]) * (b[2] - d[2]) - (a[2] - c[2]) * (b[1] - d[1]))

\* evalVolumeHex(x0, ..., x7), x a sequence of the 8 corners x0..x7
evalVolumeHex(x) ==
    LET p == average(x)
        x0 == x[1]  x1 == x[2]  x2 == x[3]  x3 == x[4]
        x4 == x[5]  x5 == x[6]  x6 == x[7]  x7 == x[8]
        V == volpym(x0, x1, x3, x2, p)
           + volpym(x0, x2, x4, x6, p)
           + volpym(x0, x4, x5, x1, p)
           + volpym(x1, x5, x7, x3, p)
           + volpym(x2, x3, x7, x6, p)
           + volpym(x4, x6, x7, x5, p)
    IN  ExactDiv(V, 6)

\* a mis-transcribed adjoint: the contribution to cb[0] has the sign of
\* tempb11 wrong
volpym_bBad(a, b, c, d, p) ==
    LET tempb == ((a[2]-c[2])*(b[3]-d[3]) - (a[3]-c[3])*(b[2]-d[2]))
        tempb0 == -ExactDiv(tempb, 4)
        tempb1 == p[1] - ExactDiv(a[1]+b[1]+c[1]+d[1], 4)
        tempb2 == (b[3]-d[3]) * tempb1
        tempb3 == (a[2]-c[2]) * tempb1
        tempb4 == -((b[2]-d[2]) * tempb1)
        tempb5 == -((a[3]-c[3]) * tempb1)
        tempb6 == ((a[3]-c[3])*(b[1]-d[1]) - (a[1]-c[1])*(b[3]-d[3]))
        tempb7 == -ExactDiv(tempb6, 4)
        tempb8 == p[2] - ExactDiv(a[2]+b[2]+c[2]+d[2], 4)
        tempb9 == (b[1]-d[1]) * tempb8
        tempb10 == (a[3]-c[3]) * tempb8
        tempb11 == -((b[3]-d[3]) * tempb8)
        tempb12 == -((a[1]-c[1]) * tempb8)
        tempb13 == ((a[1]-c[1])*(b[2]-d[2]) - (a[2]-c[2])*(b[1]-d[1]))
        tempb14 == -ExactDiv(tempb13, 4)
        tempb15 == p[3] - ExactDiv(a[3]+b[3]+c[3]+d[3], 4)
        tempb16 == (b[2]-d[2]) * tempb15
        tempb17 == (a[1]-c[1]) * tempb15
        tempb18 == -((b[1]-d[1]) * tempb15)
        tempb19 == -((a[2]-c[2]) * tempb15)
    IN  [ab |-> <<tempb16 + tempb11 + tempb0,
                  tempb18 + tempb7 + tempb2,
                  tempb14 + tempb9 + tempb4>>,
         bb |-> <<tempb19 + tempb10 + tempb0,
                  tempb17 + tempb7 + tempb5,
                  tempb14 + tempb12 + tempb3>>,
         cb |-> <<tempb0 + tempb11 - tempb16,
                  tempb7 - tempb18 - tempb2,
                  tempb14 - tempb9 - tempb4>>,
         db |-> <<tempb0 - tempb10 - tempb19,
                  tempb7 - tempb17 - tempb5,
                  tempb14 - tempb12 - tempb3>>,
         pb |-> <<tempb, tempb6, tempb13>>]

\* volpym_b: what one call adds to ab, bb, cb, db and pb (volpymb = 1.0)
volpym_b(a, b, c, d, p) ==
    LET tempb == ((a[2]-c[2])*(b[3]-d[3]) - (a[3]-c[3])*(b[2]-d[2]))
        tempb0 == -ExactDiv(tempb, 4)
        tempb1 == p[1] - ExactDiv(a[1]+b[1]+c[1]+d[1], 4)
        tempb2 == (b[3]-d[3]) * tempb1
        tempb3 == (a[2]-c[2]) * tempb1
        tempb4 == -((b[2]-d[2]) * tempb1)
        tempb5 == -((a[3]-c[3]) * tempb1)
        tempb6 == ((a[3]-c[3])*(b[1]-d[1]) - (a[1]-c[1])*(b[3]-d[3]))
        tempb7 == -ExactDiv(tempb6, 4)
        tempb8 == p[2] - ExactDiv(a[2]+b[2]+c[2]+d[2], 4)
        tempb9 == (b[1]-d[1]) * tempb8
        tempb10 == (a[3]-c[3]) * tempb8
        tempb11 == -((b[3]-d[3]) * tempb8)
        tempb12 == -((a[1]-c[1]) * tempb8)
        tempb13 == ((a[1]-c[1])*(b[2]-d[2]) - (a[2]-c[2])*(b[1]-d[1]))
        tempb14 == -ExactDiv(tempb13, 4)
        tempb15 == p[3] - ExactDiv(a[3]+b[3]+c[3]+d[3], 4)
        tempb16 == (b[2]-d[2]) * tempb15
        tempb17 == (a[1]-c[1]) * tempb15
        tempb18 == -((b[1]-d[1]) * tempb15)
        tempb19 == -((a[2]-c[2]) * tempb15)
    IN  [ab |-> <<tempb16 + tempb11 + tempb0,
                  tempb18 + tempb7 + tempb2,
                  tempb14 + tempb9 + tempb4>>,
         bb |-> <<tempb19 + tempb10 + tempb0,
                  tempb17 + tempb7 + tempb5,
                  tempb14 + tempb12 + tempb3>>,
         cb |-> <<tempb0 - tempb11 - tempb16,
                  tempb7 - tempb18 - tempb2,
                  tempb14 - tempb9 - tempb4>>,
         db |-> <<tempb0 - tempb10 - tempb19,
                  tempb7 - tempb17 - tempb5,
                  tempb14 - tempb12 - tempb3>>,
         pb |-> <<tempb, tempb6, tempb13>>]

\* evalVolumeHex_b after its six volpym_b calls r1..r6 (in call order): each
\* call has added to the four corners it was handed and to pb; pb / 8 is
\* then added to all eight corners.  The result is x0b..x7b.
HexScatter(r1, r2, r3, r4, r5, r6) ==
    LET pb == VDiv(VSumSeq(<<r1.pb, r2.pb, r3.pb, r4.pb, r5.pb, r6.pb>>), 8)
    IN  << VSumSeq(<<r1.ab, r2.ab, r3.ab, pb>>),
           VSumSeq(<<r1.bb, r3.db, r4.ab, pb>>),
           VSumSeq(<<r1.db, r2.bb, r5.ab, pb>>),
           VSumSeq(<<r1.cb, r4.db, r5.bb, pb>>),
           VSumSeq(<<r2.cb, r3.bb, r6.ab, pb>>),
           VSumSeq(<<r3.cb, r4.bb, r6.db, pb>>),
           VSumSeq(<<r2.db, r5.db, r6.bb, pb>>),
           VSumSeq(<<r4.cb, r5.cb, r6.cb, pb>>) >>

\* evalVolumeHex_b(x0..x7, x0b..x7b): what one call adds to x0b..x7b
evalVolumeHex_b(x) ==
    LET p == average(x)
        x0 == x[1]  x1 == x[2]  x2 == x[3]  x3 == x[4]
        x4 == x[5]  x5 == x[6]  x6 == x[7]  x7 == x[8]
    IN  HexScatter(volpym_b(x0, x1, x3, x2, p),   \* x0b, x1b, x3b, x2b
                   volpym_b(x0, x2, x4, x6, p),   \* x0b, x2b, x4b, x6b
                   volpym_b(x0, x4, x5, x1, p),   \* x0b, x4b, x5b, x1b
                   volpym_b(x1, x5, x7, x3, p),   \* x1b, x5b, x7b, x3b
                   volpym_b(x2, x3, x7, x6, p),   \* x2b, x3b, x7b, x6b
                   volpym_b(x4, x6, x7, x5, p))   \* x4b, x6b, x7b, x5b

\* x = self.coords.reshape((nSpan, nChord, 2, 3)): the position of x[i, j, k]
\* in the flattened coords (i, j, k from 0; positions from 1)
FlatIdx(nChord, i, j, k) == (i * nChord + j) * 2 + k + 1

\* the positions of the 8 corners handed to evalVolumeHex for cell (i, j)
CellIdx(nChord, i, j) ==
    << FlatIdx(nChord, i, j, 0),     FlatIdx(nChord, i + 1, j, 0),
       FlatIdx(nChord, i, j + 1, 0), FlatIdx(nChord, i + 1, j + 1, 0),
       FlatIdx(nChord, i, j, 1),     FlatIdx(nChord, i + 1, j, 1),
       FlatIdx(nChord, i, j + 1, 1), FlatIdx(nChord, i + 1, j + 1, 1) >>

\* the n-th cell (from 1) in loop order:
\* for j in range(nChord-1): for i in range(nSpan-1)
Cell(nSpan, n) == <<(n - 1) % (nSpan - 1), (n - 1) \div (nSpan - 1)>>
NCells(nSpan, nChord) == (nSpan - 1) * (nChord - 1)

CellCorners(coords, nChord, c) ==
    LET I == CellIdx(nChord, c[1], c[2])
    IN  << coords[I[1]], coords[I[2]], coords[I[3]], coords[I[4]],
           coords[I[5]], coords[I[6]], coords[I[7]], coords[I[8]] >>

\* Volume after the first n cells of evalVolume's loops
RECURSIVE VolumeLoop(_, _, _, _)
VolumeLoop(coords, nSpan, nChord, n) ==
    IF n = 0 THEN 0
    ELSE VolumeLoop(coords, nSpan, nChord, n - 1)
         + evalVolumeHex(CellCorners(coords, nChord, Cell(nSpan, n)))

\* the summed hexahedron volume of evalVolume, before the sign test
RawVolume(coords, nSpan, nChord) ==
    VolumeLoop(coords, nSpan, nChord, NCells(nSpan, nChord))

\* the sign test of evalVolume on the summed Volume: the value returned and
\* self.flipVolume afterwards
SignTest(Volume, flipVolume) ==
    IF Volume < 0
    THEN [Volume |-> -Volume, flipVolume |-> TRUE]
    ELSE [Volume |-> Volume, flipVolume |-> flipVolume]

\* evalVolume: the value returned and self.flipVolume afterwards
evalVolume(coords, nSpan, nChord, flipVolume) ==
    SignTest(RawVolume(coords, nSpan, nChord), flipVolume)

\* xb with the increments g (x0b..x7b of one evalVolumeHex_b call) added at
\* the positions I of the cell's 8 corners
AddCell(xb, I, g) ==
    [q \in 1..Len(xb) |->
        CASE q = I[1] -> VAdd(xb[q], g[1])
          [] q = I[2] -> VAdd(xb[q], g[2])
          [] q = I[3] -> VAdd(xb[q], g[3])
          [] q = I[4] -> VAdd(xb[q], g[4])
          [] q = I[5] -> VAdd(xb[q], g[5])
          [] q = I[6] -> VAdd(xb[q], g[6])
          [] q = I[7] -> VAdd(xb[q], g[7])
          [] q = I[8] -> VAdd(xb[q], g[8])
          [] OTHER -> xb[q]] \o <<>>

\* xb after the first n cells of evalVolumeSens's loops
RECURSIVE SensLoop(_, _, _, _)
SensLoop(coords, nSpan, nChord, n) ==
    IF n = 0 THEN [q \in 1..Len(coords) |-> VZero] \o <<>>
    ELSE AddCell(SensLoop(coords, nSpan, nChord, n - 1),
                 CellIdx(nChord, Cell(nSpan, n)[1], Cell(nSpan, n)[2]),
                 evalVolumeHex_b(CellCorners(coords, nChord, Cell(nSpan, n))))

\* the summed adjoint of evalVolumeSens, before the division by 6 and the flip
RawVolumeSens(coords, nSpan, nChord) ==
    SensLoop(coords, nSpan, nChord, NCells(nSpan, nChord))

\* the end of evalVolumeSens: xb /= 6.0, then xb = -xb if self.flipVolume
SixthAndFlip(xb, flipVolume) ==
    [q \in 1..Len(xb) |->
        IF flipVolume THEN VNeg(VDiv(xb[q], 6)) ELSE VDiv(xb[q], 6)] \o <<>>

\* evalVolumeSens: xb, flattened like coords
evalVolumeSens(coords, nSpan, nChord, flipVolume) ==
    SixthAndFlip(RawVolumeSens(coords, nSpan, nChord), flipVolume)

---------------------------------------------------------------------------
(* VolumeConstraint: the object *)

\* "self.V0 = self.evalVolume()", e what evalVolume returned and left in
\* self.flipVolume
StoreV0(c, e) ==
    [x \in (DOMAIN c) \cup {"V0"} |->
        IF x = "V0" THEN e.Volume
        ELSE IF x = "flipVolume" THEN e.flipVolume ELSE c[x]]

\* VolumeConstraint.__init__: the fields after construction.  flipVolume is
\* False when evalVolume is called for V0.
VolumeConstraint_init(name, nSpan, nChord, coords, lower, upper, scaled, scale, addToPyOpt) ==
    StoreV0([kind |-> "volume", name |-> name, nSpan |-> nSpan,
             nChord |-> nChord, coords |-> coords, lower |-> lower,
             upper |-> upper, scaled |-> scaled, scale |-> scale,
             addToPyOpt |-> addToPyOpt, flipVolume |-> FALSE],
            evalVolume(coords, nSpan, nChord, FALSE))

---------------------------------------------------------------------------
(* The kernel study: one cell (nSpan = nChord = 2), its corners moved one
   coordinate at a time, the kernels applied to it and to its images under
   a reflection of the corner ordering and under rotations. *)

\* the unit cube in the x[i, j, k] ordering of evalVolume: x[i, j, k] = (i, j, k)
UnitCube ==
    [q \in 1..8 |->
        VScale(Pitch, <<(q - 1) \div 4, ((q - 1) \div 2) % 2, (q - 1) % 2>>)]

\* a cell of zero thickness: the up and the down layer coincide
FlatCell ==
    [q \in 1..8 |-> VScale(Pitch, <<(q - 1) \div 4, ((q - 1) \div 2) % 2, 0>>)]

\* a sheared, tapered cell: the k = 1 layer is shifted and shrunk
SkewCell ==
    [q \in 1..8 |->
        LET i == (q - 1) \div 4
            j == ((q - 1) \div 2) % 2
            k == (q - 1) % 2
        IN  VScale(Pitch, <<2 * i + k * (1 - i), 2 * j + k, 2 * k - i * j>>)]

HexShapes == {UnitCube, FlatCell, SkewCell}

\* exchange the up (k = 0) and down (k = 1) layers of the flattened coords
Reflect(coords) ==
    [q \in 1..Len(coords) |-> IF q % 2 = 1 THEN coords[q + 1] ELSE coords[q - 1]]

\* rotations about the origin: a quarter turn about z, a quarter turn about
\* x, and the turn about z by the angle of the (3, 4, 5) triangle
RotZ90(v) == <<-v[2], v[1], v[3]>>
RotX90(v) == <<v[1], -v[3], v[2]>>
Rot345(v) == <<ExactDiv(3 * v[1] - 4 * v[2], 5),
               ExactDiv(4 * v[1] + 3 * v[2], 5), v[3]>>

Rotations == {"rotZ90", "rotX90", "rot345", "rot345X90"}
Transforms == {"id", "reflect"} \cup Rotations

Transform(tr, coords) ==
    CASE tr = "id"        -> coords
      [] tr = "reflect"   -> Reflect(coords)
      [] tr = "rotZ90"    -> [q \in 1..Len(coords) |-> RotZ90(coords[q])]
      [] tr = "rotX90"    -> [q \in 1..Len(coords) |-> RotX90(coords[q])]
      [] tr = "rot345"    -> [q \in 1..Len(coords) |-> Rot345(coords[q])]
      [] tr = "rot345X90" -> [q \in 1..Len(coords) |-> RotX90(Rot345(coords[q]))]

\* the step of the central difference: a multiple of 24, smaller than Pitch
FDStep == 8 * 3

Bump(coords, q, ax, h) ==
    [coords EXCEPT ![q] = [coords[q] EXCEPT ![ax] = coords[q][ax] + h]]

\* the kernel study constructs its own objects: no container object exists
ConIdle ==
    /\ con = [kind |-> "none"] /\ DVGeo = [nDV |-> 0]
    /\ funcs = EmptyDict /\ funcsSens = EmptyDict
    /\ optProb = [called |-> FALSE, cons |-> <<>>]
    /\ handle = [written |-> FALSE, lines |-> <<>>, raised |-> ""]
    /\ evalAt = <<>> /\ prev = EmptyDict
    /\ sensLog = [called |-> FALSE, calls |-> <<>>]

\* Python's None and a value that is not None
None == <<>>
Some(x) == <<x>>

\* the record of a call, before its fields are filled in
NoCall ==
    [op |-> "none", args |-> <<>>, name |-> None, raised |-> "",
     projected |-> <<>>, added |-> <<>>]

\* the studies of single objects have no DVConstraints object
\* DVConstraints(): no surface set, p0, v1 and v2 are None
NoSoup == [set |-> FALSE, wing |-> <<>>, p0 |-> None, v1 |-> None, v2 |-> None]

RegEmpty ==
    /\ thickCon = <<>> /\ volumeCon = <<>> /\ LeTeCon = <<>>
    /\ selfDVGeo = None /\ ptSets = <<>>
    /\ call = NoCall
    /\ soup = NoSoup

RegIdle == RegEmpty /\ callerChordDir = <<1, 0, 0>>

\* what projectPoints returns for no point
NoProj ==
    [x0 |-> <<>>, volID |-> <<>>, u |-> <<>>, v |-> <<>>, w |-> <<>>,
     D |-> <<>>, checkErrors |-> FALSE, raised |-> "", warning |-> None,
     tried |-> <<>>, last |-> <<>>, lists |-> <<>>]

\* pyBlock(): embeded_volumes = {}, attachPoints not called yet
NoAttach ==
    [called |-> FALSE, given |-> FALSE, interiorOnly |-> FALSE,
     faceFreeze |-> None, raised |-> "", ret |-> {},
     embeded_volumes |-> EmptyDict]

\* the studies of DVConstraints have no pyBlock object
BlkIdle == nVol = 0 /\ proj = NoProj /\ attach = NoAttach

HexInit ==
    /\ hcoords \in HexShapes
    /\ hmoves = 0
    /\ hres = [op |-> "none"]
    /\ ConIdle
    /\ RegIdle
    /\ BlkIdle

\* one scalar coordinate of one corner moves by one lattice step
HexMove(q, ax, s) ==
    /\ hmoves < MaxHexMoves
    /\ hcoords' = Bump(hcoords, q, ax, s * Pitch)
    /\ hmoves' = hmoves + 1
    /\ hres' = [op |-> "none"]
    /\ UNCHANGED conVars
    /\ UNCHANGED regVars
    /\ UNCHANGED blkVars

\* a VolumeConstraint is constructed on the transformed corners and asked
\* for its gradient: __init__ (evalVolume for V0), then evalVolumeSens.
\* hres holds the result for the current corners until they move.
HexConstruct(tr) ==
    LET x == Transform(tr, hcoords)
        vc == VolumeConstraint_init("hex", 2, 2, x, 0, 0, FALSE, 1, FALSE)
    IN  /\ hres.op = "none"
        /\ hres' = [op |-> "construct", tr |-> tr,
                    raw |-> evalVolumeHex(CellCorners(x, 2, <<0, 0>>)),
                    V0 |-> vc.V0, flipVolume |-> vc.flipVolume,
                    xb |-> evalVolumeSens(vc.coords, 2, 2, vc.flipVolume)]
        /\ UNCHANGED <<hcoords, hmoves>>
        /\ UNCHANGED conVars
        /\ UNCHANGED regVars
        /\ UNCHANGED blkVars

\* a finite-difference check of the gradient: the constraint is constructed,
\* evalVolumeSens is called, then evalVolume is called on the same object
\* with each scalar coordinate in turn moved by +FDStep and by -FDStep
HexFiniteDiff ==
    LET vc == VolumeConstraint_init("hex", 2, 2, hcoords, 0, 0, FALSE, 1, FALSE)
        V(q, ax, h) == evalVolume(Bump(hcoords, q, ax, h), 2, 2,
                                  vc.flipVolume).Volume
    IN  /\ hres.op = "none"
        /\ hres' = [op |-> "fd",
                    raw |-> RawVolume(hcoords, 2, 2),
                    flipVolume |-> vc.flipVolume,
                    xb |-> evalVolumeSens(vc.coords, 2, 2, vc.flipVolume),
                    Vp |-> [q \in 1..8 |-> [ax \in 1..3 |-> V(q, ax, FDStep)]],
                    Vm |-> [q \in 1..8 |-> [ax \in 1..3 |-> V(q, ax, -FDStep)]]]
        /\ UNCHANGED <<hcoords, hmoves>>
        /\ UNCHANGED conVars
        /\ UNCHANGED regVars
        /\ UNCHANGED blkVars

HexNext ==
    \/ \E q \in 1..8, ax \in 1..3, s \in {-1, 1} : HexMove(q, ax, s)
    \/ \E tr \in Transforms : HexConstruct(tr)
    \/ HexFiniteDiff

SpecHex == HexInit /\ [][HexNext]_vars

---------------------------------------------------------------------------
(* Claims about the volume kernels, checked under SpecHex *)

Sgn(n) == IF n < 0 THEN -1 ELSE IF n > 0 THEN 1 ELSE 0

\* the constraint constructed on the corners as they are, and its gradient
HexBase == VolumeConstraint_init("hex", 2, 2, hcoords, 0, 0, FALSE, 1, FALSE)
HexBaseSens == evalVolumeSens(hcoords, 2, 2, HexBase.flipVolume)
HexBaseRaw == evalVolumeHex(CellCorners(hcoords, 2, <<0, 0>>))
Reflected == hres.op = "construct" /\ hres.tr = "reflect"

\* C5: for a single cell, exchanging the up and down layers negates
\* the raw value of evalVolumeHex, and the constraint constructed on the
\* exchanged ordering reports the same volume and, corner by corner, the same
\* gradient as the one constructed on the original ordering.
C5_ReflectionAbsorbed ==
    Reflected =>
        /\ hres.raw = -HexBaseRaw
        /\ hres.V0 = HexBase.V0
        /\ Reflect(hres.xb) = HexBaseSens

\* C6: evalVolume of the unit cube (side Pitch, x[i, j, k] = (i, j, k)) is 1
\* (Pitch^3), and for any 8 corners the gradient of evalVolumeSens summed
\* over the corners is zero along each axis.
C6_UnitCubeAndTranslation ==
    hres.op = "construct" =>
        /\ (hres.tr = "id" /\ hcoords = UnitCube) => hres.V0 = Pitch * Pitch * Pitch
        /\ VSumSeq(hres.xb) = VZero

\* C7 as stated: each of the 24 gradient entries of evalVolumeSens equals the
\* central difference quotient of evalVolume in that coordinate.
C7_GradientIsFiniteDifference ==
    hres.op = "fd" =>
        \A q \in 1..8, ax \in 1..3 :
            hres.xb[q][ax] * (2 * FDStep) = hres.Vp[q][ax] - hres.Vm[q][ax]

\* the raw volume is not zero and does not take the other sign at either
\* perturbed position of coordinate (q, ax)
SignKept(q, ax) ==
    LET r == Sgn(HexBaseRaw)
    IN  /\ r # 0
        /\ Sgn(RawVolume(Bump(hcoords, q, ax, FDStep), 2, 2)) \in {0, r}
        /\ Sgn(RawVolume(Bump(hcoords, q, ax, -FDStep), 2, 2)) \in {0, r}

\* C7 amended: the gradient entry equals the central difference quotient of
\* evalVolume for every coordinate whose perturbation keeps the sign of the
\* raw volume, which must not be zero.
C7_GradientIsFiniteDifferenceSignKept ==
    hres.op = "fd" =>
        \A q \in 1..8, ax \in 1..3 :
            SignKept(q, ax) =>
                hres.xb[q][ax] * (2 * FDStep) = hres.Vp[q][ax] - hres.Vm[q][ax]

\* C7 witness: a finite-difference check ran on a flipped cell (negative raw
\* volume) with a non-zero gradient entry whose perturbation keeps the sign
C7_Witness ==
    /\ hres.op = "fd" /\ hres.flipVolume
    /\ \E q \in 1..8, ax \in 1..3 : SignKept(q, ax) /\ hres.xb[q][ax] # 0

\* C8: evalVolume returns the same value when one rotation is applied to all
\* the corners.
C8_RotationInvariant ==
    (hres.op = "construct" /\ hres.tr \in Rotations) => hres.V0 = HexBase.V0

\* C8 witness: a cell of non-zero volume was evaluated after the rotation by
\* the (3, 4, 5) angle, which moved its corners
C8_Witness ==
    /\ hres.op = "construct" /\ hres.tr = "rot345" /\ hres.V0 > 0
    /\ Transform("rot345", hcoords) # hcoords

---------------------------------------------------------------------------
(* DVGeo: the external geometry parameterization.  It holds the point set
   registered by addPointSet, one design variable dv (nDV = 0: no design
   variable at all), the local shape-variable groups DV_listLocal and the
   FFD control points.  update() returns the registered points deformed by
   dv: the odd positions (1-based) move by -2 dv step along z and the first
   one also by dv step along x. *)

DVGeo_update(g) ==
    [q \in 1..Len(g.points) |->
        IF q % 2 = 1
        THEN VAdd(g.points[q],
                  <<IF q = 1 THEN g.dv * g.step ELSE 0, 0, -2 * g.dv * g.step>>)
        ELSE g.points[q]] \o <<>>

DVGeo_getNDV(g) == g.nDV

DVGeo_getVarNames(g) == g.varNames

\* totalSensitivity(dIdpt, ptSetName): the derivative handed over, tagged
DVGeo_totalSensitivity(g, dIdpt) == [dIdpt |-> dIdpt]

\* DV_listLocal[key].value: the k-th local variable of every group is k dv
DVGeo_value(g, grp) == [k \in 1..grp.nVal |-> k * g.dv]

\* geo_utils.eDist_b(p1, p2): the derivatives of the distance with respect
\* to p1 and p2, each a vector vec times the root scale
eDist_b(p1, p2) ==
    LET s == RootDiv(RootOne, eDist(p1, p2))
    IN  <<[vec |-> VSub(p1, p2), scale |-> s],
          [vec |-> VSub(p2, p1), scale |-> s]>>

\* numpy.zeros(3) as an entry of a derivative array
ZeroEntry == [vec |-> VZero, scale |-> RootOne]

---------------------------------------------------------------------------
(* ThicknessConstraint *)

\* __init__: the fields after construction
ThicknessConstraint_init(name, coords, lower, upper, scaled, scale, addToPyOpt) ==
    LET nCon == Len(coords) \div 2
    IN  [kind |-> "thickness", name |-> name, coords |-> coords,
         nCon |-> nCon, lower |-> lower, upper |-> upper, scaled |-> scaled,
         scale |-> scale, addToPyOpt |-> addToPyOpt,
         D0 |-> [i \in 1..nCon |-> norm(coords[2 * i - 1], coords[2 * i])]]

\* an evalFunctions that takes the reference lengths anew from the
\* coordinates it has just pulled
Thickness_evalFunctionsNewD0(c, g) ==
    LET coords == DVGeo_update(g)
        D0 == [i \in 1..c.nCon |-> norm(coords[2 * i - 1], coords[2 * i])]
    IN  [con |-> [c EXCEPT !.coords = coords, !.D0 = D0],
         value |-> [i \in 1..c.nCon |->
                      IF c.scaled
                      THEN RootDiv(norm(coords[2 * i - 1], coords[2 * i]), c.D0[i])
                      ELSE norm(coords[2 * i - 1], coords[2 * i])]]

\* an evalFunctions that ignores self.scaled
Thickness_evalFunctionsUnscaled(c, g) ==
    LET coords == DVGeo_update(g)
    IN  [con |-> [c EXCEPT !.coords = coords],
         value |-> [i \in 1..c.nCon |->
                      norm(coords[2 * i - 1], coords[2 * i])]]

\* evalFunctions: the object afterwards and the value stored in funcs
Thickness_evalFunctions(c, g) ==
    LET coords == DVGeo_update(g)
    IN  [con |-> [c EXCEPT !.coords = coords],
         value |-> [i \in 1..c.nCon |->
                      IF c.scaled
                      THEN RootDiv(norm(coords[2 * i - 1], coords[2 * i]), c.D0[i])
                      ELSE norm(coords[2 * i - 1], coords[2 * i])]]

\* evalFunctionsSens: dTdPt, the array handed to totalSensitivity
Thickness_dTdPt(c) ==
    [i \in 1..c.nCon |->
        LET b == eDist_b(c.coords[2 * i - 1], c.coords[2 * i])
            p1b == IF c.scaled
                   THEN [b[1] EXCEPT !.scale = RootDiv(@, c.D0[i])] ELSE b[1]
            p2b == IF c.scaled
                   THEN [b[2] EXCEPT !.scale = RootDiv(@, c.D0[i])] ELSE b[2]
        IN  [q \in 1..Len(c.coords) |->
                IF q = 2 * i - 1 THEN p1b
                ELSE IF q = 2 * i THEN p2b ELSE ZeroEntry]]

\* writeTecplot of ThicknessConstraint and of ThicknessToChordConstraint:
\* the lines written, each the format and its arguments
Thickness_writeTecplot(c) ==
    << [fmt |-> "Zone T=%s", args |-> <<c.name>>],
       [fmt |-> "Nodes = %d, Elements = %d ZONETYPE=FELINESEG",
        args |-> <<Len(c.coords), Len(c.coords) \div 2>>],
       [fmt |-> "DATAPACKING=POINT", args |-> <<>>] >>
    \o [q \in 1..Len(c.coords) |-> [fmt |-> "%f %f %f", args |-> c.coords[q]]]
    \o [i \in 1..(Len(c.coords) \div 2) |->
            [fmt |-> "%d %d", args |-> <<2 * i - 1, 2 * i>>]]

---------------------------------------------------------------------------
(* ThicknessToChordConstraint *)

\* __init__: the fields after construction
ThicknessToChordConstraint_init(name, coords, lower, upper, scale, addToPyOpt) ==
    LET nCon == Len(coords) \div 4
    IN  [kind |-> "toc", name |-> name, coords |-> coords, nCon |-> nCon,
         lower |-> lower, upper |-> upper, scale |-> scale,
         addToPyOpt |-> addToPyOpt,
         ToC0 |-> [i \in 1..nCon |->
                     RootDiv(norm(coords[4 * i - 3], coords[4 * i - 2]),
                             norm(coords[4 * i - 1], coords[4 * i]))]]

\* an evalFunctions that takes the reference ratios anew from the
\* coordinates it has just pulled
ToC_evalFunctionsNewToC0(c, g) ==
    LET coords == DVGeo_update(g)
        r == [i \in 1..c.nCon |->
                RootDiv(eDist(coords[4 * i - 3], coords[4 * i - 2]),
                        eDist(coords[4 * i - 1], coords[4 * i]))]
    IN  [con |-> [c EXCEPT !.coords = coords, !.ToC0 = r],
         value |-> [i \in 1..c.nCon |-> RootDiv(r[i], c.ToC0[i])]]

\* evalFunctions: the object afterwards and the value stored in funcs
ToC_evalFunctions(c, g) ==
    LET coords == DVGeo_update(g)
    IN  [con |-> [c EXCEPT !.coords = coords],
         value |-> [i \in 1..c.nCon |->
                      LET t == eDist(coords[4 * i - 3], coords[4 * i - 2])
                          ch == eDist(coords[4 * i - 1], coords[4 * i])
                      IN  RootDiv(RootDiv(t, ch), c.ToC0[i])]]

\* evalFunctionsSens: dToCdPt, the array handed to totalSensitivity
ToC_dToCdPt(c) ==
    [i \in 1..c.nCon |->
        LET t == eDist(c.coords[4 * i - 3], c.coords[4 * i - 2])
            ch == eDist(c.coords[4 * i - 1], c.coords[4 * i])
            b12 == eDist_b(c.coords[4 * i - 3], c.coords[4 * i - 2])
            b34 == eDist_b(c.coords[4 * i - 1], c.coords[4 * i])
            \* p1b/c / ToC0 and (-p3b*t/c**2) / ToC0
            thick(b) == [b EXCEPT !.scale = RootDiv(RootDiv(@, ch), c.ToC0[i])]
            chord(b) == [vec |-> VNeg(b.vec),
                         scale |-> RootDiv(RootDiv(RootMul(b.scale, t),
                                                   RootMul(ch, ch)), c.ToC0[i])]
        IN  [q \in 1..Len(c.coords) |->
                CASE q = 4 * i - 3 -> thick(b12[1])
                  [] q = 4 * i - 2 -> thick(b12[2])
                  [] q = 4 * i - 1 -> chord(b34[1])
                  [] q = 4 * i     -> chord(b34[2])
                  [] OTHER -> ZeroEntry]]

---------------------------------------------------------------------------
(* VolumeConstraint: the methods of the object *)

\* the end of evalFunctions, coords what update returned and e what
\* evalVolume returned and left in self.flipVolume
Volume_store(c, coords, e) ==
    [con |-> [c EXCEPT !.coords = coords, !.flipVolume = e.flipVolume],
     value |-> IF c.scaled THEN Frac(e.Volume, c.V0) ELSE e.Volume]

\* evalFunctions from "V = self.evalVolume()" on
Volume_pull(c, coords) ==
    Volume_store(c, coords, evalVolume(coords, c.nSpan, c.nChord, c.flipVolume))

\* evalFunctions: the object afterwards and the value stored in funcs
Volume_evalFunctions(c, g) == Volume_pull(c, DVGeo_update(g))

\* "if self.scaled: dVdPt /= self.V0"
ScaleSens(dVdPt, scaled, V0) ==
    IF scaled
    THEN [q \in 1..Len(dVdPt) |->
            <<Frac(dVdPt[q][1], V0), Frac(dVdPt[q][2], V0),
              Frac(dVdPt[q][3], V0)>>]
    ELSE dVdPt

\* evalFunctionsSens: dVdPt, the array handed to totalSensitivity
Volume_dVdPt(c) ==
    ScaleSens(evalVolumeSens(c.coords, c.nSpan, c.nChord, c.flipVolume),
              c.scaled, c.V0)

\* writeTecplot: the lines written; the points in the order of the loops
\* for k in range(2): for j in range(nChord): for i in range(nSpan)
Volume_writeTecplot(c) ==
    << [fmt |-> "ZONE T=\"%s\" I=%d J=%d K=%d",
        args |-> <<c.name, c.nSpan, c.nChord, 2>>],
       [fmt |-> "DATAPACKING=POINT", args |-> <<>>] >>
    \o [n \in 1..(2 * c.nChord * c.nSpan) |->
            LET i == (n - 1) % c.nSpan
                j == ((n - 1) \div c.nSpan) % c.nChord
                k == (n - 1) \div (c.nSpan * c.nChord)
            IN  [fmt |-> "%f %f %f",
                 args |-> c.coords[FlatIdx(c.nChord, i, j, k)]]]

---------------------------------------------------------------------------
(* LeTeConstraint *)

\* the loop "for k in range(len(temp))" of _finalize: the last position k
\* (from 0) with temp[k][0] = ind, or -1 for None
LastPos(temp, ind) ==
    LET K == {k \in 1..Len(temp) : temp[k][1] = ind}
    IN  IF K = {} THEN -1 ELSE (CHOOSE k \in K : \A m \in K : m <= k) - 1

\* a pair loop that appends [up, down] as soon as one of the two is found
ConsLoopEither(temp, indSetA, indSetB, j) ==
    LET F[n \in 0..j] ==
            IF n = 0 THEN <<>>
            ELSE LET up == LastPos(temp, indSetA[n])
                     down == LastPos(temp, indSetB[n])
                 IN  IF up # -1 \/ down # -1
                     THEN Append(F[n - 1], <<up, down>>) ELSE F[n - 1]
    IN  F[j]

\* cons after the first j index pairs of _finalize's loop over indSetA
ConsLoop(temp, indSetA, indSetB, j) ==
    LET F[n \in 0..j] ==
            IF n = 0 THEN <<>>
            ELSE LET up == LastPos(temp, indSetA[n])
                     down == LastPos(temp, indSetB[n])
                 IN  IF up # -1 /\ down # -1
                     THEN Append(F[n - 1], <<up, down>>) ELSE F[n - 1]
    IN  F[j]

\* a jacobian that forgets the entry of the second index
JacobianUpOnly(cons, ndv) ==
    [i \in 1..Len(cons) |-> [col \in 0..(ndv - 1) |->
        IF col = cons[i][1] THEN 1 ELSE 0]]

\* a jacobian with 1.0 for the first index and -1.0 for the second
JacobianDifference(cons, ndv) ==
    [i \in 1..Len(cons) |-> [col \in 0..(ndv - 1) |->
        IF col = cons[i][1] THEN 1 ELSE IF col = cons[i][2] THEN -1 ELSE 0]]

\* sparse.lil_matrix((ncon, ndv)) with jacobian[i, cons[i][0]] = 1.0 and
\* jacobian[i, cons[i][1]] = 1.0: the rows, each over the columns 0..ndv-1
Jacobian(cons, ndv) ==
    [i \in 1..Len(cons) |-> [col \in 0..(ndv - 1) |->
        IF col = cons[i][1] \/ col = cons[i][2] THEN 1 ELSE 0]]

\* the object after the first n groups of _finalize's loop over DV_listLocal
RECURSIVE FinalizeLoop(_, _, _)
FinalizeLoop(c, g, n) ==
    IF n = 0 THEN c
    ELSE LET d == FinalizeLoop(c, g, n - 1)
             grp == g.DV_listLocal[n]
             cons == ConsLoop(grp.coefList, c.indSetA, c.indSetB,
                              Len(c.indSetA))
             ncon == Len(cons)
         IN  [d EXCEPT
                !.wrt = IF ncon > 0 THEN Append(@, grp.key) ELSE @,
                !.jac = IF ncon > 0
                        THEN Put(@, grp.key, Jacobian(cons, grp.nVal)) ELSE @,
                !.ncon = @ + ncon,
                !.conIndices = @ \o cons]

LeTe_finalize(c, g) == FinalizeLoop(c, g, Len(g.DV_listLocal))

\* __init__: the fields after construction
LeTeConstraint_init(name, indSetA, indSetB, g) ==
    LeTe_finalize([kind |-> "lete", name |-> name, indSetA |-> indSetA,
                   indSetB |-> indSetB, ncon |-> 0, wrt |-> <<>>,
                   jac |-> EmptyDict, conIndices |-> <<>>], g)

\* self.DVGeo.DV_listLocal[key]
LocalDV(g, key) ==
    g.DV_listLocal[CHOOSE n \in 1..Len(g.DV_listLocal) :
                      g.DV_listLocal[n].key = key]

\* jac.dot(value): one entry per row
JacDot(jac, value) ==
    [i \in 1..Len(jac) |->
        SumSeq([k \in 1..Len(value) |-> jac[i][k - 1] * value[k]])]

\* a loop over self.wrt that puts each group's entries in front of cons
RECURSIVE LeTe_evalLoopPrepend(_, _, _)
LeTe_evalLoopPrepend(c, g, n) ==
    IF n = 0 THEN <<>>
    ELSE JacDot(c.jac[c.wrt[n]], DVGeo_value(g, LocalDV(g, c.wrt[n])))
         \o LeTe_evalLoopPrepend(c, g, n - 1)

\* evalFunctions: cons after the first n keys of self.wrt
RECURSIVE LeTe_evalLoop(_, _, _)
LeTe_evalLoop(c, g, n) ==
    IF n = 0 THEN <<>>
    ELSE LeTe_evalLoop(c, g, n - 1)
         \o JacDot(c.jac[c.wrt[n]], DVGeo_value(g, LocalDV(g, c.wrt[n])))

\* evalFunctions: the object afterwards and the value stored in funcs
LeTe_evalFunctions(c, g) ==
    [con |-> c, value |-> LeTe_evalLoop(c, g, Len(c.wrt))]

\* writeTecplot: the lines written, or the IndexError raised by
\* self.indSetA[i] when ncon exceeds the number of index pairs
LeTe_writeTecplot(c, g) ==
    IF c.ncon > Len(c.indSetA)
    THEN [lines |-> <<>>, raised |-> "IndexError"]
    ELSE LET nodes == [q \in 1..(2 * c.ncon) |->
                        IF q % 2 = 1 THEN g.coef[c.indSetA[(q + 1) \div 2]]
                        ELSE g.coef[c.indSetB[q \div 2]]]
         IN  [lines |->
                << [fmt |-> "Zone T=%s", args |-> <<c.name>>],
                   [fmt |-> "Nodes = %d, Elements = %d ZONETYPE=FELINESEG",
                    args |-> <<c.ncon * 2, c.ncon>>],
                   [fmt |-> "DATAPACKING=POINT", args |-> <<>>] >>
                \o [q \in 1..(2 * c.ncon) |->
                        [fmt |-> "%f %f %f", args |-> nodes[q]]]
                \o [i \in 1..c.ncon |->
                        [fmt |-> "%d %d", args |-> <<2 * i - 1, 2 * i>>]],
              raised |-> ""]

---------------------------------------------------------------------------
(* The constraint study: one constraint object of any of the four kinds,
   constructed on a DVGeo, then driven by the calls DVConstraints forwards to
   it (evalFunctions, evalFunctionsSens, addConstraintsPyOpt, writeTecplot)
   while the design variable of DVGeo changes. *)

\* thickness stations (the two ends of each), lattice step 1; the second
\* shape has a station of zero thickness
ThicknessShapes ==
    { << <<0, 0, 2>>, <<0, 0, 0>>, <<3, 0, 4>>, <<3, 0, 0>> >>,
      << <<0, 0, 2>>, <<0, 0, 0>>, <<3, 0, 0>>, <<3, 0, 0>> >> }

\* thickness-to-chord stations: the two ends of the thickness, then the two
\* ends of the chord; the second shape has a station of zero thickness
ToCShapes ==
    { << <<0, 0, 2>>, <<0, 0, 0>>, <<0, 0, 0>>, <<3, 0, 0>>,
         <<5, 0, 4>>, <<5, 0, 0>>, <<5, 0, 0>>, <<7, 0, 0>> >>,
      << <<0, 0, 2>>, <<0, 0, 0>>, <<0, 0, 0>>, <<3, 0, 0>>,
         <<5, 0, 0>>, <<5, 0, 0>>, <<5, 0, 0>>, <<7, 0, 0>> >> }

\* two cells side by side along the span: x[i, j, k] = (i, j, k), nSpan = 3
TwoCells ==
    [q \in 1..12 |->
        VScale(Pitch, <<(q - 1) \div 4, ((q - 1) \div 2) % 2, (q - 1) % 2>>)]

\* <<nSpan, nChord, coords>>
VolumeShapes ==
    { <<2, 2, UnitCube>>, <<2, 2, Reflect(UnitCube)>>, <<3, 2, TwoCells>> }

\* a local shape-variable group (geoDVLocal): nVal is the length of coefList
GeoDVLocal(key, indices, axes) ==
    [key |-> key, coefList |-> [k \in 1..Len(indices) |-> <<indices[k], axes[k]>>],
     nVal |-> Len(indices)]

\* DV_listLocal in iteration order: one group over the control points
\* 0..3; two groups, the second naming control point 2 for two axes; two
\* groups that both hold control points 0 and 1
LocalGroups ==
    { << GeoDVLocal("g1", <<0, 1, 2, 3>>, <<0, 0, 0, 0>>) >>,
      << GeoDVLocal("g1", <<0, 1>>, <<0, 0>>),
         GeoDVLocal("g2", <<2, 3, 2>>, <<0, 0, 1>>) >>,
      << GeoDVLocal("g1", <<0, 1>>, <<0, 0>>),
         GeoDVLocal("g2", <<1, 0, 4>>, <<0, 0, 0>>) >> }

\* the index pairs (indSetA[j], indSetB[j]) a caller may hand over
PairChoices == { <<0, 1>>, <<2, 3>>, <<0, 4>>, <<2, 2>> }
PairSeqs == UNION { [1..m -> PairChoices] : m \in 0..MaxPairs }

\* FFD.coef: the control points 0..4
FFDCoef == [i \in 0..4 |-> <<i, 0, 0>>]

\* a DVGeo without point set; nDV design variables
NewDVGeo(nDV, step, groups) ==
    [points |-> <<>>, dv |-> 0, nDV |-> nDV, step |-> step,
     varNames |-> IF nDV = 0 THEN <<>>
                  ELSE IF groups = <<>> THEN <<"shape">>
                  ELSE [k \in 1..Len(groups) |-> groups[k].key],
     DV_listLocal |-> groups, coef |-> FFDCoef]

\* DVGeo.addPointSet(coords, name)
DVGeo_addPointSet(g, coords) == [g EXCEPT !.points = coords]

HexIdle == hcoords = <<>> /\ hmoves = 0 /\ hres = [op |-> "none"]

Init ==
    /\ HexIdle
    /\ RegIdle
    /\ BlkIdle
    /\ funcs = EmptyDict /\ funcsSens = EmptyDict
    /\ optProb = [called |-> FALSE, cons |-> <<>>]
    /\ handle = [written |-> FALSE, lines |-> <<>>, raised |-> ""]
    /\ evalAt = <<>> /\ prev = EmptyDict
    /\ sensLog = [called |-> FALSE, calls |-> <<>>]
    /\ \/ \E coords \in ThicknessShapes, scaled \in BOOLEAN,
             addToPyOpt \in BOOLEAN, nDV \in {0, 1} :
            /\ con = ThicknessConstraint_init("thick", coords, "lower", "upper",
                                              scaled, "scale", addToPyOpt)
            /\ DVGeo = DVGeo_addPointSet(NewDVGeo(nDV, 1, <<>>), coords)
       \/ \E coords \in ToCShapes, addToPyOpt \in BOOLEAN, nDV \in {0, 1} :
            /\ con = ThicknessToChordConstraint_init("toc", coords, "lower",
                                                     "upper", "scale", addToPyOpt)
            /\ DVGeo = DVGeo_addPointSet(NewDVGeo(nDV, 1, <<>>), coords)
       \/ \E sh \in VolumeShapes, scaled \in BOOLEAN,
             addToPyOpt \in BOOLEAN, nDV \in {0, 1} :
            /\ con = VolumeConstraint_init("vol", sh[1], sh[2], sh[3], "lower",
                                           "upper", scaled, "scale", addToPyOpt)
            /\ DVGeo = DVGeo_addPointSet(NewDVGeo(nDV, Pitch, <<>>), sh[3])
       \/ \E groups \in LocalGroups, pairs \in PairSeqs :
            LET g == NewDVGeo(Len(groups), 1, groups)
            IN  /\ con = LeTeConstraint_init(
                            "lete", [j \in 1..Len(pairs) |-> pairs[j][1]],
                            [j \in 1..Len(pairs) |-> pairs[j][2]], g)
                /\ DVGeo = g

\* DVGeo.setDesignVars: the design variable takes another value
SetDesignVars(v) ==
    /\ DVGeo.nDV > 0
    /\ v # DVGeo.dv
    /\ DVGeo' = [DVGeo EXCEPT !.dv = v]
    /\ UNCHANGED <<con, funcs, funcsSens, optProb, handle, evalAt, prev,
                   sensLog>>
    /\ UNCHANGED hexVars
    /\ UNCHANGED regVars
    /\ UNCHANGED blkVars

\* the evalFunctions of the object's class
evalFunctions(c, g) ==
    CASE c.kind = "thickness" -> Thickness_evalFunctions(c, g)
      [] c.kind = "toc"       -> ToC_evalFunctions(c, g)
      [] c.kind = "volume"    -> Volume_evalFunctions(c, g)
      [] c.kind = "lete"      -> LeTe_evalFunctions(c, g)

\* DVConstraints.evalFunctions(funcs, includeLeTe=True)
EvalFunctions ==
    LET r == evalFunctions(con, DVGeo)
    IN  /\ con' = r.con
        /\ funcs' = Put(funcs, con.name, r.value)
        /\ prev' = IF evalAt = <<DVGeo.dv>> THEN funcs ELSE EmptyDict
        /\ evalAt' = <<DVGeo.dv>>
        /\ UNCHANGED <<DVGeo, funcsSens, optProb, handle, sensLog>>
        /\ UNCHANGED hexVars
        /\ UNCHANGED regVars
        /\ UNCHANGED blkVars

\* the derivative array the object's evalFunctionsSens hands to DVGeo
dIdpt(c) ==
    CASE c.kind = "thickness" -> Thickness_dTdPt(c)
      [] c.kind = "toc"       -> ToC_dToCdPt(c)
      [] c.kind = "volume"    -> Volume_dVdPt(c)

\* the derivatives of the object's function at coordinates pts
dIdptAt(c, pts) == dIdpt([c EXCEPT !.coords = pts])

\* an evalFunctionsSens that pulls the coordinates from DVGeo before it
\* differentiates
evalFunctionsSensPulling(c, g, fs) ==
    IF c.kind = "lete"
    THEN [funcsSens |-> Put(fs, c.name, c.jac), calls |-> <<>>]
    ELSE IF DVGeo_getNDV(g) > 0
    THEN [funcsSens |-> Put(fs, c.name,
                            DVGeo_totalSensitivity(g, dIdptAt(c, DVGeo_update(g)))),
          calls |-> <<"getNDV", "totalSensitivity">>]
    ELSE [funcsSens |-> fs, calls |-> <<"getNDV">>]

\* an evalFunctionsSens that hands the derivatives to DVGeo whatever getNDV
\* returns
evalFunctionsSensAlways(c, g, fs) ==
    IF c.kind = "lete"
    THEN [funcsSens |-> Put(fs, c.name, c.jac), calls |-> <<>>]
    ELSE [funcsSens |-> Put(fs, c.name, DVGeo_totalSensitivity(g, dIdpt(c))),
          calls |-> <<"getNDV", "totalSensitivity">>]

\* the evalFunctionsSens of the object's class: the funcsSens dictionary
\* afterwards and the DVGeo methods called, in order
evalFunctionsSens(c, g, fs) ==
    IF c.kind = "lete"
    THEN [funcsSens |-> Put(fs, c.name, c.jac), calls |-> <<>>]
    ELSE IF DVGeo_getNDV(g) > 0
    THEN [funcsSens |-> Put(fs, c.name, DVGeo_totalSensitivity(g, dIdpt(c))),
          calls |-> <<"getNDV", "totalSensitivity">>]
    ELSE [funcsSens |-> fs, calls |-> <<"getNDV">>]

\* DVConstraints.evalFunctionsSens(funcsSens, includeLeTe=True)
EvalFunctionsSens ==
    /\ funcsSens' = evalFunctionsSens(con, DVGeo, funcsSens).funcsSens
    /\ sensLog' = [called |-> TRUE,
                   calls |-> evalFunctionsSens(con, DVGeo, funcsSens).calls]
    /\ UNCHANGED <<con, DVGeo, funcs, optProb, handle, evalAt, prev>>
    /\ UNCHANGED hexVars
    /\ UNCHANGED regVars
    /\ UNCHANGED blkVars

\* what the object's addConstraintsPyOpt adds to the problem
addConstraintsPyOpt(c, g) ==
    CASE c.kind \in {"thickness", "toc"} ->
            IF c.addToPyOpt
            THEN << [call |-> "addConGroup", name |-> c.name, nCon |-> c.nCon,
                     lower |-> c.lower, upper |-> c.upper, scale |-> c.scale,
                     wrt |-> DVGeo_getVarNames(g)] >>
            ELSE <<>>
      [] c.kind = "volume" ->
            IF c.addToPyOpt
            THEN << [call |-> "addCon", name |-> c.name, lower |-> c.lower,
                     upper |-> c.upper, scale |-> c.scale,
                     wrt |-> DVGeo_getVarNames(g)] >>
            ELSE <<>>
      [] c.kind = "lete" ->
            IF c.ncon > 0
            THEN << [call |-> "addConGroup", name |-> c.name, nCon |-> c.ncon,
                     lower |-> 0, upper |-> 0, scale |-> 1, linear |-> TRUE,
                     wrt |-> c.wrt, jac |-> c.jac] >>
            ELSE <<>>

\* DVConstraints.addConstraintsPyOpt(optProb), optProb a new problem
AddConstraintsPyOpt ==
    /\ optProb' = [called |-> TRUE, cons |-> addConstraintsPyOpt(con, DVGeo)]
    /\ UNCHANGED <<con, DVGeo, funcs, funcsSens, handle, evalAt, prev,
                   sensLog>>
    /\ UNCHANGED hexVars
    /\ UNCHANGED regVars
    /\ UNCHANGED blkVars

\* what the object's writeTecplot writes to the handle, or the error raised
writeTecplot(c, g) ==
    CASE c.kind \in {"thickness", "toc"} ->
            [lines |-> Thickness_writeTecplot(c), raised |-> ""]
      [] c.kind = "volume" ->
            [lines |-> Volume_writeTecplot(c), raised |-> ""]
      [] c.kind = "lete" -> LeTe_writeTecplot(c, g)

\* DVConstraints.writeTecplot(fileName): the file is opened anew
WriteTecplot ==
    LET w == writeTecplot(con, DVGeo)
    IN  /\ handle' = [written |-> TRUE, lines |-> w.lines, raised |-> w.raised]
        /\ UNCHANGED <<con, DVGeo, funcs, funcsSens, optProb, evalAt, prev,
                       sensLog>>
        /\ UNCHANGED hexVars
        /\ UNCHANGED regVars
        /\ UNCHANGED blkVars

Next ==
    \/ \E v \in (-MaxDV)..MaxDV : SetDesignVars(v)
    \/ EvalFunctions
    \/ EvalFunctionsSens
    \/ AddConstraintsPyOpt
    \/ WriteTecplot

Spec == Init /\ [][Next]_vars

---------------------------------------------------------------------------
(* The registry study: one DVConstraints object, its add* methods called
   with and without a DVGeo, with default and explicit names, on a surface
   whose projections may fail, and its addConstraintsPyOpt. *)

\* collections.OrderedDict: the <<key, value>> entries in insertion order;
\* an assignment to a key already present replaces its value in place
ODHas(d, key) == \E k \in 1..Len(d) : d[k][1] = key
ODPut(d, key, v) ==
    IF ODHas(d, key)
    THEN [k \in 1..Len(d) |-> IF d[k][1] = key THEN <<key, v>> ELSE d[k]]
    ELSE Append(d, <<key, v>>)

\* the DVConstraints object with its three collections and the DVGeo it
\* holds; ptSets belongs to the DVGeo object
Self ==
    [thickCon |-> thickCon, volumeCon |-> volumeCon, LeTeCon |-> LeTeCon,
     DVGeo |-> selfDVGeo, ptSets |-> ptSets]

\* what a call returns to the model: the exception raised ("" for none),
\* the object afterwards and the sample nodes projected, in order
Raise(self, exc, projected) ==
    [raised |-> exc, self |-> self, projected |-> projected]
Return(self, projected) ==
    [raised |-> "", self |-> self, projected |-> projected]

\* _checkDVGeo: the exception raised, "" for none
checkDVGeo(self) == IF self.DVGeo = None THEN "Error" ELSE ""

\* 'thickness_constraints_%d' % len(self.thickCon) and its like
DefaultName(prefix, d) == prefix \o ToString(Len(d))

\* the shape of an argument for lower, upper or scale: <<>> for a scalar
\* numpy's broadcasting of two shapes, aligned at their last dimensions:
\* NoShape (numpy raises ValueError) when two dimensions differ and neither
\* is 1
NoShape == <<-1>>
RECURSIVE Broadcast(_, _)
Broadcast(s, t) ==
    IF s = <<>> THEN t
    ELSE IF t = <<>> THEN s
    ELSE LET a == s[Len(s)]
             b == t[Len(t)]
             rest == Broadcast(SubSeq(s, 1, Len(s) - 1), SubSeq(t, 1, Len(t) - 1))
         IN  IF rest = NoShape \/ (a # b /\ a # 1 /\ b # 1)
             THEN NoShape
             ELSE Append(rest, IF a = 1 THEN b ELSE a)

RECURSIVE Product(_)
Product(s) == IF s = <<>> THEN 1 ELSE Head(s) * Product(Tail(s))

\* _convertTo2D(value, dim1, dim2), value given by its shape: the test
\* "if numpy.isscalar:" is on the function object, which is true, so the
\* result is always value * numpy.ones((dim1, dim2))
convertTo2D(shape, dim1, dim2) ==
    IF TRUE
    THEN IF Broadcast(shape, <<dim1, dim2>>) = NoShape
         THEN [raised |-> "ValueError", shape |-> <<>>]
         ELSE [raised |-> "", shape |-> Broadcast(shape, <<dim1, dim2>>)]
    ELSE LET temp == IF Len(shape) < 2 THEN <<1>> \o shape ELSE shape
         IN  IF temp[1] = dim1 /\ temp[2] = dim2
             THEN [raised |-> "", shape |-> shape]
             ELSE [raised |-> "Error", shape |-> <<>>]

\* _convertTo1D(value, dim1): the same test, value * numpy.ones(dim1)
convertTo1D(shape, dim1) ==
    IF TRUE
    THEN IF Broadcast(shape, <<dim1>>) = NoShape
         THEN [raised |-> "ValueError", shape |-> <<>>]
         ELSE [raised |-> "", shape |-> Broadcast(shape, <<dim1>>)]
    ELSE LET temp == IF Len(shape) < 1 THEN <<1>> ELSE shape
         IN  IF temp[1] = dim1
             THEN [raised |-> "", shape |-> shape]
             ELSE [raised |-> "Error", shape |-> <<>>]

\* numpy's flatten, on shapes
flatten(shape) == <<Product(shape)>>

\* geo_utils.projectNode on sample node k of a surface: the surface is
\* given by what it answers, the (up, down) pair of each node and the set
\* of nodes whose projection fails
projectNode(surf, k) ==
    [up |-> surf.coords[2 * k - 1], down |-> surf.coords[2 * k],
     fail |-> k \in surf.fails]

\* a projection loop that goes on after a failure and raises at the end
ProjectAll(p, pn, k) ==
    [coords |-> p.coords \o <<pn.up, pn.down>>,
     projected |-> Append(p.projected, k),
     raised |-> IF pn.fail THEN "Error" ELSE p.raised]

\* one pass of a projection loop: node k is projected unless the loop has
\* raised; a failure raises Error
ProjectStep(p, pn, k) ==
    IF p.raised # "" THEN p
    ELSE IF pn.fail
    THEN [p EXCEPT !.projected = Append(@, k), !.raised = "Error"]
    ELSE [coords |-> p.coords \o <<pn.up, pn.down>>,
          projected |-> Append(p.projected, k), raised |-> ""]

\* the loop "for i in range(nCon)" of addThicknessConstraints1D after k nodes
RECURSIVE ProjectLoop(_, _)
ProjectLoop(surf, k) ==
    IF k = 0 THEN [coords |-> <<>>, projected |-> <<>>, raised |-> ""]
    ELSE ProjectStep(ProjectLoop(surf, k - 1), projectNode(surf, k), k)

\* _generateIntersections: the loops over i in range(nSpan) and j in
\* range(nChord); node k is X[i, j] with k = i * nChord + j + 1
generateIntersections(surf, nSpan, nChord) ==
    ProjectLoop(surf, nSpan * nChord)

\* numpy.linalg.norm of a vector whose length is a whole number
Height(d) ==
    CHOOSE r \in 0..(Abs(d[1]) + Abs(d[2]) + Abs(d[3])) : r * r = Dot(d, d)

\* one pass of the loop of addThicknessToChordConstraints1D: the two ends
\* of the thickness, their mid-point, and the point 0.1 * height along
\* chordDir
ToCStep(p, pn, k, chordDir) ==
    IF p.raised # "" THEN p
    ELSE IF pn.fail
    THEN [p EXCEPT !.projected = Append(@, k), !.raised = "Error"]
    ELSE [coords |-> p.coords \o
                     << pn.up, pn.down, VDiv(VAdd(pn.up, pn.down), 2),
                        VAdd(VDiv(VAdd(pn.up, pn.down), 2),
                             VScale(ExactDiv(Height(VSub(pn.up, pn.down)), 10),
                                    chordDir)) >>,
          projected |-> Append(p.projected, k), raised |-> ""]

RECURSIVE ToCLoop(_, _, _)
ToCLoop(surf, k, chordDir) ==
    IF k = 0 THEN [coords |-> <<>>, projected |-> <<>>, raised |-> ""]
    ELSE ToCStep(ToCLoop(surf, k - 1, chordDir), projectNode(surf, k), k,
                 chordDir)

\* the name of the new constraint
ConName(name, prefix, d) ==
    IF name = None THEN DefaultName(prefix, d) ELSE name[1]

\* self.thickCon[conName] = ThicknessConstraint(...): the constructor hands
\* the coordinates to DVGeo.addPointSet under the constraint's name
StoreThickness(self, conName, c, projected) ==
    Return([self EXCEPT !.thickCon = ODPut(@, conName, c),
                        !.ptSets = Append(@, conName)], projected)

StoreVolume(self, conName, c, projected) ==
    Return([self EXCEPT !.volumeCon = ODPut(@, conName, c),
                        !.ptSets = Append(@, conName)], projected)

\* the part of addThicknessConstraints2D after the three _convertTo2D calls
Thickness2DStore(self, lower, upper, scale, name, addToPyOpt, p) ==
    IF p.raised # "" THEN Raise(self, p.raised, p.projected)
    ELSE StoreThickness(self, ConName(name, "thickness_constraints_", self.thickCon),
            ThicknessConstraint_init(
                ConName(name, "thickness_constraints_", self.thickCon),
                p.coords, lower, upper, TRUE, scale, addToPyOpt),
            p.projected)

\* addThicknessConstraints2D (scaled left at True); lower, upper and scale
\* are given by their shapes
addThicknessConstraints2D(self, surf, nSpan, nChord, lower, upper, scale, name, addToPyOpt) ==
    IF checkDVGeo(self) # "" THEN Raise(self, checkDVGeo(self), <<>>)
    ELSE IF convertTo2D(upper, nSpan, nChord).raised # ""
    THEN Raise(self, convertTo2D(upper, nSpan, nChord).raised, <<>>)
    ELSE IF convertTo2D(lower, nSpan, nChord).raised # ""
    THEN Raise(self, convertTo2D(lower, nSpan, nChord).raised, <<>>)
    ELSE IF convertTo2D(scale, nSpan, nChord).raised # ""
    THEN Raise(self, convertTo2D(scale, nSpan, nChord).raised, <<>>)
    ELSE Thickness2DStore(self,
            flatten(convertTo2D(lower, nSpan, nChord).shape),
            flatten(convertTo2D(upper, nSpan, nChord).shape),
            flatten(convertTo2D(scale, nSpan, nChord).shape),
            name, addToPyOpt, generateIntersections(surf, nSpan, nChord))

\* the part of addThicknessConstraints1D after its projection loop
Thickness1DStore(self, lower, upper, scale, name, addToPyOpt, p) ==
    IF p.raised # "" THEN Raise(self, p.raised, p.projected)
    ELSE StoreThickness(self, ConName(name, "thickness_constraints_", self.thickCon),
            ThicknessConstraint_init(
                ConName(name, "thickness_constraints_", self.thickCon),
                p.coords, lower, upper, TRUE, scale, addToPyOpt),
            p.projected)

\* addThicknessConstraints1D (scaled left at True)
addThicknessConstraints1D(self, surf, nCon, lower, upper, scale, name, addToPyOpt) ==
    IF checkDVGeo(self) # "" THEN Raise(self, checkDVGeo(self), <<>>)
    ELSE Thickness1DStore(self, lower, upper, scale, name, addToPyOpt,
                          ProjectLoop(surf, nCon))

\* the part of addThicknessToChordConstraints1D after its projection loop
ToC1DStore(self, lower, upper, scale, name, addToPyOpt, p) ==
    IF p.raised # "" THEN Raise(self, p.raised, p.projected)
    ELSE StoreThickness(self,
            ConName(name, "thickness_to_chord_constraints_", self.thickCon),
            ThicknessToChordConstraint_init(
                ConName(name, "thickness_to_chord_constraints_", self.thickCon),
                p.coords, lower, upper, scale, addToPyOpt),
            p.projected)

\* "chordDir /= numpy.linalg.norm(numpy.array(chordDir, 'd'))": the array
\* the caller handed over (a numpy array of floats), after the call; the
\* line is reached when _checkDVGeo has not raised
DividedInPlace(self, chordDir) ==
    IF checkDVGeo(self) # "" THEN chordDir
    ELSE VDiv(chordDir, Height(chordDir))

\* addThicknessToChordConstraints1D
addThicknessToChordConstraints1D(self, surf, nCon, chordDir, lower, upper, scale, name, addToPyOpt) ==
    IF checkDVGeo(self) # "" THEN Raise(self, checkDVGeo(self), <<>>)
    ELSE ToC1DStore(self, lower, upper, scale, name, addToPyOpt,
                    ToCLoop(surf, nCon, VDiv(chordDir, Height(chordDir))))

\* the part of addVolumeConstraint after _generateIntersections
VolumeStore(self, nSpan, nChord, lower, upper, scale, name, addToPyOpt, p) ==
    IF p.raised # "" THEN Raise(self, p.raised, p.projected)
    ELSE StoreVolume(self, ConName(name, "volume_constraint_", self.volumeCon),
            VolumeConstraint_init(
                ConName(name, "volume_constraint_", self.volumeCon),
                nSpan, nChord, p.coords, lower, upper, TRUE, scale, addToPyOpt),
            p.projected)

\* addVolumeConstraint (scaled left at True)
addVolumeConstraint(self, surf, nSpan, nChord, lower, upper, scale, name, addToPyOpt) ==
    IF checkDVGeo(self) # "" THEN Raise(self, checkDVGeo(self), <<>>)
    ELSE VolumeStore(self, nSpan, nChord, lower, upper, scale, name, addToPyOpt,
                     generateIntersections(surf, nSpan, nChord))

\* DVGeo.getLocalIndex(volID): volume 0 is a block of 2 x 3 x 2 control
\* points, volume 1 one of 3 x 3 x 2; the control points are numbered
\* volume after volume, lIndex[i, j, k] = first + nJ nK i + nK j + k
LIndexShape(volID) == IF volID = 0 THEN <<2, 3, 2>> ELSE <<3, 3, 2>>
lIndex(volID, i, j, k) ==
    (IF volID = 0 THEN 0 ELSE 12)
    + LIndexShape(volID)[2] * LIndexShape(volID)[3] * i
    + LIndexShape(volID)[3] * j + k

\* the face of the block picked by faceID.lower(), as a two-dimensional
\* array (rows from 1), or <<>> for an unknown faceID
Lower(s) ==
    CASE s = "iLow" -> "ilow" [] s = "iHigh" -> "ihigh"
      [] s = "jLow" -> "jlow" [] s = "jHigh" -> "jhigh"
      [] s = "kLow" -> "klow" [] s = "kHigh" -> "khigh"
      [] OTHER -> s

Face(volID, faceID) ==
    LET nI == LIndexShape(volID)[1]
        nJ == LIndexShape(volID)[2]
        nK == LIndexShape(volID)[3]
    IN  CASE Lower(faceID) = "ilow" ->
                [j \in 1..nJ |-> [k \in 1..nK |-> lIndex(volID, 0, j - 1, k - 1)]]
          [] Lower(faceID) = "ihigh" ->
                [j \in 1..nJ |-> [k \in 1..nK |-> lIndex(volID, nI - 1, j - 1, k - 1)]]
          [] Lower(faceID) = "jlow" ->
                [i \in 1..nI |-> [k \in 1..nK |-> lIndex(volID, i - 1, 0, k - 1)]]
          [] Lower(faceID) = "jhigh" ->
                [i \in 1..nI |-> [k \in 1..nK |-> lIndex(volID, i - 1, nJ - 1, k - 1)]]
          [] Lower(faceID) = "klow" ->
                [i \in 1..nI |-> [j \in 1..nJ |-> lIndex(volID, i - 1, j - 1, 0)]]
          [] Lower(faceID) = "khigh" ->
                [i \in 1..nI |-> [j \in 1..nJ |-> lIndex(volID, i - 1, j - 1, nK - 1)]]
          [] OTHER -> <<>>

\* self.LeTeCon[conName] = LeTeConstraint(conName, indSetA, indSetB, DVGeo)
StoreLeTe(self, name, indSetA, indSetB) ==
    Return([self EXCEPT !.LeTeCon =
                ODPut(@, ConName(name, "lete_constraint_", self.LeTeCon),
                      LeTeConstraint_init(
                          ConName(name, "lete_constraint_", self.LeTeCon),
                          indSetA, indSetB, self.DVGeo[1]))], <<>>)

\* a FaceIndexSets that takes the two index rows along any dimension of
\* length 2, whatever the other dimension
FaceIndexSetsAnyTwo(self, indices, name) ==
    IF indices = <<>> THEN Raise(self, "Error", <<>>)
    ELSE IF Len(indices) = 2
    THEN StoreLeTe(self, name, indices[1], indices[2])
    ELSE IF Len(indices[1]) = 2
    THEN StoreLeTe(self, name, [r \in 1..Len(indices) |-> indices[r][1]],
                   [r \in 1..Len(indices) |-> indices[r][2]])
    ELSE Raise(self, "Error", <<>>)

\* the index sets of a face, or Error when not exactly one of its two
\* dimensions is 2
FaceIndexSets(self, indices, name) ==
    IF indices = <<>> THEN Raise(self, "Error", <<>>)
    ELSE IF Len(indices) = 2 /\ Len(indices[1]) > 2
    THEN StoreLeTe(self, name, indices[1], indices[2])
    ELSE IF Len(indices[1]) = 2 /\ Len(indices) > 2
    THEN StoreLeTe(self, name, [r \in 1..Len(indices) |-> indices[r][1]],
                   [r \in 1..Len(indices) |-> indices[r][2]])
    ELSE Raise(self, "Error", <<>>)

\* an addLeTeConstraints that does not compare the lengths of the index sets
addLeTeConstraintsAnyLength(self, volID, faceID, indSetA, indSetB, name) ==
    IF checkDVGeo(self) # "" THEN Raise(self, checkDVGeo(self), <<>>)
    ELSE IF volID # None /\ faceID # None
    THEN FaceIndexSets(self, Face(volID[1], faceID[1]), name)
    ELSE IF indSetA # None /\ indSetB # None
    THEN StoreLeTe(self, name, indSetA[1], indSetB[1])
    ELSE Raise(self, "Error", <<>>)

\* addLeTeConstraints
addLeTeConstraints(self, volID, faceID, indSetA, indSetB, name) ==
    IF checkDVGeo(self) # "" THEN Raise(self, checkDVGeo(self), <<>>)
    ELSE IF volID # None /\ faceID # None
    THEN FaceIndexSets(self, Face(volID[1], faceID[1]), name)
    ELSE IF indSetA # None /\ indSetB # None
    THEN IF Len(indSetA[1]) # Len(indSetB[1])
         THEN Raise(self, "Error", <<>>)
         ELSE StoreLeTe(self, name, indSetA[1], indSetB[1])
    ELSE Raise(self, "Error", <<>>)

\* the calls the objects of one collection make on the problem, in the
\* order of the collection
RECURSIVE AddAll(_, _, _)
AddAll(self, d, n) ==
    IF n = 0 THEN <<>>
    ELSE AddAll(self, d, n - 1) \o addConstraintsPyOpt(d[n][2], self.DVGeo[1])

\* an addConstraintsPyOpt that visits the volume constraints first
addConstraintsPyOptVolumeFirst(self) ==
    AddAll(self, self.volumeCon, Len(self.volumeCon))
    \o AddAll(self, self.thickCon, Len(self.thickCon))
    \o AddAll(self, self.LeTeCon, Len(self.LeTeCon))

\* DVConstraints.addConstraintsPyOpt(optProb): the calls made on optProb
addConstraintsPyOptAll(self) ==
    AddAll(self, self.thickCon, Len(self.thickCon))
    \o AddAll(self, self.volumeCon, Len(self.volumeCon))
    \o AddAll(self, self.LeTeCon, Len(self.LeTeCon))

(* The inputs of the registry study *)

\* the DVGeo object handed to setDVGeo: one design variable group over the
\* control points 0..3
RegDVGeo == NewDVGeo(1, 1, << GeoDVLocal("g1", <<0, 1, 2, 3>>, <<0, 0, 0, 0>>) >>)

\* explicit names a caller may give: those of the default pattern
NameChoices(prefix) == { None, Some(prefix \o "1") }

\* the sets of failing sample nodes of a surface with n sample nodes
FailChoices(n) == { {}, {1}, {2, n} }

\* what the surface answers to the 2 x 2 sample nodes of a grid, to the two
\* sample nodes of a line, and to the two of a thickness-to-chord line
GridAnswers == UnitCube
LineAnswers == << <<0, 0, 2>>, <<0, 0, 0>>, <<3, 0, 4>>, <<3, 0, 0>> >>
ToCAnswers == << <<0, 0, 20>>, <<0, 0, 0>>, <<60, 0, 40>>, <<60, 0, 0>> >>

\* shapes of a lower argument: a scalar, a 2 x 2 array, an array of two
\* values, an array of three values
ShapeChoices == { <<>>, <<2, 2>>, <<2>>, <<3>> }

\* the array the caller holds and hands over as chordDir: of unit length,
\* or of length 3
ChordDirChoices == { <<1, 0, 0>>, <<3, 0, 0>> }

VolIDChoices == { None, Some(0), Some(1) }
FaceChoices == { None, Some("iLow"), Some("jlow"), Some("klow"), Some("top") }
IndSetChoices ==
    { <<None, None>>, <<Some(<<0>>), Some(<<1>>)>>,
      <<Some(<<0>>), Some(<<1, 3>>)>> }

\* DVConstraints(): empty collections, no DVGeo
RegInit ==
    /\ RegEmpty
    /\ callerChordDir \in ChordDirChoices
    /\ ConIdle
    /\ HexIdle
    /\ BlkIdle

\* the effect of a call on the variables
Effect(op, args, name, r) ==
    /\ thickCon' = r.self.thickCon
    /\ volumeCon' = r.self.volumeCon
    /\ LeTeCon' = r.self.LeTeCon
    /\ ptSets' = r.self.ptSets
    /\ call' = [NoCall EXCEPT !.op = op, !.args = args, !.name = name,
                              !.raised = r.raised, !.projected = r.projected]
    /\ UNCHANGED selfDVGeo

\* the add* calls are counted by what they have stored
Adds == Len(ptSets) + Len(LeTeCon)

\* setDVGeo(DVGeo)
SetDVGeo ==
    /\ selfDVGeo = None
    /\ selfDVGeo' = Some(RegDVGeo)
    /\ call' = [NoCall EXCEPT !.op = "setDVGeo"]
    /\ UNCHANGED <<thickCon, volumeCon, LeTeCon, ptSets>>
    /\ UNCHANGED callerChordDir
    /\ UNCHANGED soup
    /\ UNCHANGED conVars
    /\ UNCHANGED hexVars
    /\ UNCHANGED blkVars

AddThicknessConstraints2D(fails, lower, name, addToPyOpt) ==
    /\ Adds < MaxCons
    /\ Effect("addThicknessConstraints2D",
              [fails |-> fails, lower |-> lower, nSpan |-> 2, nChord |-> 2],
              name,
              addThicknessConstraints2D(
                  Self, [coords |-> GridAnswers, fails |-> fails], 2, 2,
                  lower, <<>>, <<>>, name, addToPyOpt))
    /\ UNCHANGED callerChordDir
    /\ UNCHANGED soup
    /\ UNCHANGED conVars
    /\ UNCHANGED hexVars
    /\ UNCHANGED blkVars

AddThicknessConstraints1D(fails, name, addToPyOpt) ==
    /\ Adds < MaxCons
    /\ Effect("addThicknessConstraints1D", [fails |-> fails], name,
              addThicknessConstraints1D(
                  Self, [coords |-> LineAnswers, fails |-> fails], 2,
                  <<>>, <<>>, <<>>, name, addToPyOpt))
    /\ UNCHANGED callerChordDir
    /\ UNCHANGED soup
    /\ UNCHANGED conVars
    /\ UNCHANGED hexVars
    /\ UNCHANGED blkVars

AddThicknessToChordConstraints1D(fails, name, addToPyOpt) ==
    /\ Adds < MaxCons
    /\ Effect("addThicknessToChordConstraints1D",
              [fails |-> fails, chordDir |-> callerChordDir], name,
              addThicknessToChordConstraints1D(
                  Self, [coords |-> ToCAnswers, fails |-> fails], 2,
                  callerChordDir, <<>>, <<>>, <<>>, name, addToPyOpt))
    /\ callerChordDir' = DividedInPlace(Self, callerChordDir)
    /\ UNCHANGED soup
    /\ UNCHANGED conVars
    /\ UNCHANGED hexVars
    /\ UNCHANGED blkVars

AddVolumeConstraint(fails, name, addToPyOpt) ==
    /\ Adds < MaxCons
    /\ Effect("addVolumeConstraint", [fails |-> fails], name,
              addVolumeConstraint(
                  Self, [coords |-> GridAnswers, fails |-> fails], 2, 2,
                  <<>>, <<>>, <<>>, name, addToPyOpt))
    /\ UNCHANGED callerChordDir
    /\ UNCHANGED soup
    /\ UNCHANGED conVars
    /\ UNCHANGED hexVars
    /\ UNCHANGED blkVars

AddLeTeConstraints(volID, faceID, indSets, name) ==
    /\ Adds < MaxCons
    /\ Effect("addLeTeConstraints",
              [volID |-> volID, faceID |-> faceID, indSetA |-> indSets[1],
               indSetB |-> indSets[2]],
              name,
              addLeTeConstraints(Self, volID, faceID, indSets[1], indSets[2],
                                 name))
    /\ UNCHANGED callerChordDir
    /\ UNCHANGED soup
    /\ UNCHANGED conVars
    /\ UNCHANGED hexVars
    /\ UNCHANGED blkVars

\* _convertTo1D(value, dim1) called on its own, value given by its shape
ConvertTo1D(shape, dim1) ==
    /\ call' = [NoCall EXCEPT !.op = "_convertTo1D",
                              !.args = [shape |-> shape, dim1 |-> dim1],
                              !.raised = convertTo1D(shape, dim1).raised]
    /\ UNCHANGED <<thickCon, volumeCon, LeTeCon, selfDVGeo, ptSets>>
    /\ UNCHANGED callerChordDir
    /\ UNCHANGED soup
    /\ UNCHANGED conVars
    /\ UNCHANGED hexVars
    /\ UNCHANGED blkVars

\* addConstraintsPyOpt(optProb), optProb a new problem: the calls made on it
RegAddConstraintsPyOpt ==
    /\ call' = [NoCall EXCEPT !.op = "addConstraintsPyOpt",
                              !.added = addConstraintsPyOptAll(Self)]
    /\ UNCHANGED <<thickCon, volumeCon, LeTeCon, selfDVGeo, ptSets>>
    /\ UNCHANGED callerChordDir
    /\ UNCHANGED soup
    /\ UNCHANGED conVars
    /\ UNCHANGED hexVars
    /\ UNCHANGED blkVars

RegNext ==
    \/ SetDVGeo
    \/ \E fails \in FailChoices(4), lower \in ShapeChoices,
          name \in NameChoices("thickness_constraints_"),
          addToPyOpt \in BOOLEAN :
            AddThicknessConstraints2D(fails, lower, name, addToPyOpt)
    \/ \E fails \in FailChoices(2),
          name \in NameChoices("thickness_constraints_"),
          addToPyOpt \in BOOLEAN :
            AddThicknessConstraints1D(fails, name, addToPyOpt)
    \/ \E fails \in FailChoices(2),
          name \in NameChoices("thickness_to_chord_constraints_"),
          addToPyOpt \in BOOLEAN :
            AddThicknessToChordConstraints1D(fails, name, addToPyOpt)
    \/ \E fails \in FailChoices(4),
          name \in NameChoices("volume_constraint_"),
          addToPyOpt \in BOOLEAN :
            AddVolumeConstraint(fails, name, addToPyOpt)
    \/ \E volID \in VolIDChoices, faceID \in FaceChoices,
          indSets \in IndSetChoices,
          name \in NameChoices("lete_constraint_") :
            AddLeTeConstraints(volID, faceID, indSets, name)
    \/ \E shape \in ShapeChoices : ConvertTo1D(shape, 2)
    \/ RegAddConstraintsPyOpt

SpecReg == RegInit /\ [][RegNext]_vars

---------------------------------------------------------------------------
(* The surface study: setSurface with a pyGeo object, which hands it to
   _generateDiscreteSurface.  A patch is a bilinear surface
   surf(u, v) = origin + (u, v, twist u v) with knot vectors of order 2. *)

\* the largest number of patches of a wing
MaxSurf == 2

\* geo_utils.fill_knots(t, k, level) for level = 1: the k - 1 repeated knots
\* at either end are dropped and one knot is put in the middle of every
\* span
RECURSIVE FillSpans(_, _)
FillSpans(t, n) ==
    IF n = 1 THEN << t[1] >>
    ELSE FillSpans(t, n - 1) \o << ExactDiv(t[n - 1] + t[n], 2), t[n] >>

fill_knots(t, k, level) ==
    FillSpans(SubSeq(t, k, Len(t) - k + 1), Len(t) - 2 * k + 2)

\* surf(u, v): the point of the patch at the parameters (u, v)
surfEval(surf, u, v) == VAdd(surf.origin, <<u, v, surf.twist * u * v>>)

\* as CellTriangles, but the second triangle is spanned from the corner P1
\* of the cell, (P1; P3-P1, P0-P1)
CellTrianglesFromP1(surf, u, v, i, j) ==
    LET P0 == surfEval(surf, u[i + 1], v[j + 1])
        P1 == surfEval(surf, u[i + 2], v[j + 1])
        P2 == surfEval(surf, u[i + 1], v[j + 2])
        P3 == surfEval(surf, u[i + 2], v[j + 2])
    IN  [p0 |-> << P0, P1 >>,
         v1 |-> << VSub(P1, P0), VSub(P3, P1) >>,
         v2 |-> << VSub(P2, P0), VSub(P0, P1) >>]

\* the two triangles appended for cell (i, j), i and j from 0
CellTriangles(surf, u, v, i, j) ==
    LET P0 == surfEval(surf, u[i + 1], v[j + 1])
        P1 == surfEval(surf, u[i + 2], v[j + 1])
        P2 == surfEval(surf, u[i + 1], v[j + 2])
        P3 == surfEval(surf, u[i + 2], v[j + 2])
    IN  [p0 |-> << P0, P3 >>,
         v1 |-> << VSub(P1, P0), VSub(P2, P3) >>,
         v2 |-> << VSub(P2, P0), VSub(P1, P3) >>]

\* the lists l with the triangles t appended
Extend(l, t) ==
    [p0 |-> l.p0 \o t.p0, v1 |-> l.v1 \o t.v1, v2 |-> l.v2 \o t.v2]

\* the first n passes of "for i in range(len(u)-1): for j in
\* range(len(v)-1)" on the lists l
RECURSIVE CellLoop(_, _, _, _, _)
CellLoop(l, surf, u, v, n) ==
    IF n = 0 THEN l
    ELSE Extend(CellLoop(l, surf, u, v, n - 1),
                CellTriangles(surf, u, v, (n - 1) \div (Len(v) - 1),
                              (n - 1) % (Len(v) - 1)))

\* one pass of "for isurf in range(wing.nSurf)"
PatchLoop(l, surf) ==
    CellLoop(l, surf, fill_knots(surf.tu, surf.ku, 1),
             fill_knots(surf.tv, surf.kv, 1),
             (Len(fill_knots(surf.tu, surf.ku, 1)) - 1)
                * (Len(fill_knots(surf.tv, surf.kv, 1)) - 1))

RECURSIVE SurfLoop(_, _)
SurfLoop(wing, n) ==
    IF n = 0 THEN [p0 |-> <<>>, v1 |-> <<>>, v2 |-> <<>>]
    ELSE PatchLoop(SurfLoop(wing, n - 1), wing.surfs[n])

\* _generateDiscreteSurface(wing): self.p0, self.v1, self.v2 afterwards
generateDiscreteSurface(wing) == SurfLoop(wing, wing.nSurf)

\* knot vectors of order 2 with one and with two spans
KnotChoices == { <<0, 0, 2, 2>>, <<0, 0, 2, 6, 6>> }

\* the patches of a wing
SurfChoices ==
    [ku : {2}, kv : {2}, tu : KnotChoices, tv : KnotChoices,
     origin : { <<0, 0, 0>>, <<8, 0, 0>> }, twist : {0, 1}]

\* pyGeo objects of up to MaxSurf patches
WingChoices ==
    UNION { { [nSurf |-> n, surfs |-> ss] : ss \in [1..n -> SurfChoices] } :
            n \in 0..MaxSurf }

SurfInit ==
    /\ RegIdle
    /\ ConIdle
    /\ HexIdle
    /\ BlkIdle

\* the wing set and the lists l that _generateDiscreteSurface stored
Stored(wing, l) ==
    [set |-> TRUE, wing |-> wing, p0 |-> l.p0, v1 |-> l.v1, v2 |-> l.v2]

\* setSurface(surf), surf a pyGeo object
SetSurface(wing) ==
    /\ soup' = Stored(wing, generateDiscreteSurface(wing))
    /\ UNCHANGED <<thickCon, volumeCon, LeTeCon, selfDVGeo, ptSets, call,
                   callerChordDir>>
    /\ UNCHANGED conVars
    /\ UNCHANGED hexVars
    /\ UNCHANGED blkVars

SurfNext == \E wing \in WingChoices : SetSurface(wing)

SpecSurf == SurfInit /\ [][SurfNext]_vars

---------------------------------------------------------------------------
(* pyBlock.projectPoints: a block of nVol volumes laid side by side along
   x, points on the x axis projected into it.  Lengths are whole numbers of
   a unit of which the tolerance 50 * eps is Tol. *)

\* 50 * eps, in units of the lattice
Tol == 2

\* the entries of D before a projection, 1e10 in the code: larger than any
\* distance in the block study
Far == 1000

\* volume iVol covers 4 iVol <= x <= 4 iVol + 3: a gap of one unit lies
\* between neighbours.  vols[iVol].projectPoint(x): the parameters of the
\* closest point of the volume and the offset of x from it
projectPoint(iVol, x) ==
    LET lo == 4 * iVol
        c == IF x[1] < lo THEN lo ELSE IF x[1] > lo + 3 THEN lo + 3 ELSE x[1]
    IN  [u |-> c - lo, v |-> 0, w |-> 0, D |-> <<x[1] - c, x[2], x[3]>>]

\* numpy.linalg.norm(a) < numpy.linalg.norm(b), on the squares
NormLess(a, b) == Dot(a, a) < Dot(b, b)

\* numpy.linalg.norm(a) < t and numpy.linalg.norm(a) > t for a length t >= 0
NormBelow(a, t) == Dot(a, a) < t * t
NormAbove(a, t) == Dot(a, a) > t * t

\* one pass of the loop over j: nothing after a break; otherwise volume
\* vol_list[j] is tried, kept when closer than the best so far, and the
\* loop breaks when its distance is below 50 * eps
InnerStep(b, iVol, p0, j) ==
    IF b.broke THEN b
    ELSE [volID |-> IF NormLess(p0.D, b.D) THEN iVol ELSE b.volID,
          u |-> IF NormLess(p0.D, b.D) THEN p0.u ELSE b.u,
          v |-> IF NormLess(p0.D, b.D) THEN p0.v ELSE b.v,
          w |-> IF NormLess(p0.D, b.D) THEN p0.w ELSE b.w,
          D |-> IF NormLess(p0.D, b.D) THEN p0.D ELSE b.D,
          iVol |-> iVol, j |-> j, broke |-> NormBelow(p0.D, Tol)]

\* the loop "for j in xrange(self.nVol)" for one point x, after n passes;
\* j counts from 1
RECURSIVE InnerLoop(_, _, _)
InnerLoop(vol_list, x, n) ==
    IF n = 0
    THEN [volID |-> 0, u |-> 0, v |-> 0, w |-> 0, D |-> <<Far, Far, Far>>,
          iVol |-> -1, j |-> 0, broke |-> FALSE]
    ELSE InnerStep(InnerLoop(vol_list, x, n - 1), vol_list[n],
                   projectPoint(vol_list[n], x), n)

\* a shuffle that leaves the list as it is
ShuffleNothing(vol_list, iVol, j) == vol_list

\* a shuffle that moves the first volume of the list to its end
ShuffleRotate(vol_list, iVol, j) ==
    SubSeq(vol_list, 2, Len(vol_list)) \o << vol_list[1] >>

\* a shuffle that puts the last volume tried in the place of the first
ShuffleOverFirst(vol_list, iVol, j) ==
    <<iVol>> \o SubSeq(vol_list, 2, Len(vol_list))

\* numpy.hstack([iVol, vol_list[:j], vol_list[j+1:]]), j counted from 1
Shuffle(vol_list, iVol, j) ==
    <<iVol>> \o SubSeq(vol_list, 1, j - 1)
             \o SubSeq(vol_list, j + 1, Len(vol_list))

\* one pass of the loop over the points: the outcome for point x is
\* appended and the volume list shuffled.  History: tried and last, the
\* first and the last volume tried for the point (vol_list[0] before the
\* loop over j, iVol after it), and lists, vol_list after the shuffle
OuterStore(r, b) ==
    [volID |-> Append(r.volID, b.volID), u |-> Append(r.u, b.u),
     v |-> Append(r.v, b.v), w |-> Append(r.w, b.w), D |-> Append(r.D, b.D),
     vol_list |-> Shuffle(r.vol_list, b.iVol, b.j),
     tried |-> Append(r.tried, r.vol_list[1]),
     last |-> Append(r.last, b.iVol),
     lists |-> Append(r.lists, Shuffle(r.vol_list, b.iVol, b.j))]

OuterStep(r, x, nV) == OuterStore(r, InnerLoop(r.vol_list, x, nV))

\* the loop "for i in xrange(len(x0))" after n points
RECURSIVE OuterLoop(_, _, _)
OuterLoop(x0, n, nV) ==
    IF n = 0
    THEN [volID |-> <<>>, u |-> <<>>, v |-> <<>>, w |-> <<>>, D |-> <<>>,
          vol_list |-> [k \in 1..nV |-> k - 1],
          tried |-> <<>>, last |-> <<>>, lists |-> <<>>]
    ELSE OuterStep(OuterLoop(x0, n - 1, nV), x0[n], nV)

\* a check pass that also counts the points at 50 * eps from the block
BadPointsFromTol(D) == Cardinality({i \in 1..Len(D) : ~NormBelow(D[i], Tol)})

\* the counter of the checkErrors pass: the points left farther than
\* 50 * eps from the block
BadPoints(D) == Cardinality({i \in 1..Len(D) : NormAbove(D[i], Tol)})

\* the check pass: the count in the warning printed, None when no warning
\* is printed (checkErrors False, or counter = 0)
Warning(checkErrors, counter) ==
    IF checkErrors /\ counter > 0 THEN Some(counter) ELSE None

\* what projectPoints returns (volID, u, v, w, D) and the warning it
\* prints; nothing in the check pass raises
Returned(x0, r, checkErrors) ==
    [x0 |-> x0, volID |-> r.volID, u |-> r.u, v |-> r.v, w |-> r.w,
     D |-> r.D, checkErrors |-> checkErrors, raised |-> "",
     warning |-> Warning(checkErrors, BadPoints(r.D)),
     tried |-> r.tried, last |-> r.last, lists |-> r.lists]

projectPoints(x0, nV, checkErrors) ==
    Returned(x0, OuterLoop(x0, Len(x0), nV), checkErrors)

\* the points handed over: on the x axis, from three units before the
\* block to three units after it
PointChoices(nV) == (-3)..(4 * nV + 2)
PointSeqs(nV) == UNION { [1..m -> PointChoices(nV)] : m \in 0..MaxPts }

\* a block of nVol volumes, nothing projected yet
BlkInit ==
    /\ nVol \in 1..MaxVol
    /\ proj = NoProj
    /\ attach = NoAttach
    /\ ConIdle
    /\ RegIdle
    /\ HexIdle

\* pyBlock.projectPoints(x0, checkErrors=checkErrors)
ProjectPoints(x0, checkErrors) ==
    /\ proj' = projectPoints([i \in 1..Len(x0) |-> <<x0[i], 0, 0>>], nVol,
                             checkErrors)
    /\ UNCHANGED <<nVol, attach>>
    /\ UNCHANGED conVars
    /\ UNCHANGED regVars
    /\ UNCHANGED hexVars

BlkNext ==
    \E x0 \in PointSeqs(nVol), checkErrors \in BOOLEAN :
        ProjectPoints(x0, checkErrors)

SpecBlk == BlkInit /\ [][BlkNext]_vars

---------------------------------------------------------------------------
(* pyBlock.attachPoints on the block of the study above.  Every volume has
   Nctl control points along each direction; a control point is named by
   <<iVol, i, j, k>>, and coef_mask is the set of control points that are
   True.  The parameters u, v, w run from 0 to ParLen. *)

\* Nctlu = Nctlv = Nctlw of every volume
Nctl == 3

\* the value of a parameter at the high end of a volume (1.0 in the code)
ParLen == 3

\* the control points of volume iVol whose index along axis (1, 2, 3 for
\* i, j, k) is in ns
Layers(iVol, axis, ns) ==
    { <<iVol>> \o c : c \in { t \in [1..3 -> 0..(Nctl - 1)] : t[axis] \in ns } }

\* coef_mask[iVol][0, :, :] = True; coef_mask[iVol][1, :, :] = True and its
\* like for the low ([0], [1]) and the high ([-1], [-2]) end of an axis
LowLayers(iVol, axis) == Layers(iVol, axis, {0, 1})
HighLayers(iVol, axis) == Layers(iVol, axis, {Nctl - 1, Nctl - 2})

\* vols[iVol].getBounds() and pyBlock.getBounds(): the volumes are segments
\* of the x axis
volBounds(iVol) == << <<4 * iVol, 0, 0>>, <<4 * iVol + 3, 0, 0>> >>

Min(a, b) == IF a < b THEN a ELSE b
Max(a, b) == IF a > b THEN a ELSE b

RECURSIVE getBounds(_)
getBounds(n) ==
    IF n = 1 THEN volBounds(0)
    ELSE << [d \in 1..3 |-> Min(getBounds(n - 1)[1][d], volBounds(n - 1)[1][d])],
            [d \in 1..3 |-> Max(getBounds(n - 1)[2][d], volBounds(n - 1)[2][d])] >>

\* r_star: the smallest extent of the block
r_star(nV) ==
    Min(Abs(getBounds(nV)[2][1] - getBounds(nV)[1][1]),
        Min(Abs(getBounds(nV)[2][2] - getBounds(nV)[1][2]),
            Abs(getBounds(nV)[2][3] - getBounds(nV)[1][3])))

\* p > eps and p < 1-eps; p < eps; p > 1-eps
Interior(q) == q > 0 /\ q < ParLen
AtLow(q) == q <= 0
AtHigh(q) == q >= ParLen

\* the "auto" freezing algorithm for point i: the control points it sets
\* True in coef_mask
AutoFreeze(r, i, nV) ==
    IF NormBelow(r.D[i], Tol) \/ ~NormBelow(r.D[i], r_star(nV)) THEN {}
    ELSE IF Interior(r.v[i]) /\ Interior(r.w[i])
    THEN IF AtLow(r.u[i]) THEN LowLayers(r.volID[i], 1)
         ELSE IF AtHigh(r.u[i]) THEN HighLayers(r.volID[i], 1) ELSE {}
    ELSE IF Interior(r.u[i]) /\ Interior(r.w[i])
    THEN IF AtLow(r.v[i]) THEN LowLayers(r.volID[i], 2)
         ELSE IF AtHigh(r.v[i]) THEN HighLayers(r.volID[i], 2) ELSE {}
    ELSE IF Interior(r.u[i]) /\ Interior(r.v[i])
    THEN IF AtLow(r.w[i]) THEN LowLayers(r.volID[i], 3)
         ELSE IF AtHigh(r.w[i]) THEN HighLayers(r.volID[i], 3) ELSE {}
    ELSE {}

\* mask: the points (from 0) that are sufficiently inside, in order
InsideMask(r) ==
    SelectSeq([i \in 1..Len(r.D) |-> i - 1],
              LAMBDA i : NormBelow(r.D[i + 1], Tol))

\* the if / elif chain over the faces named by faceFreeze
FaceFreeze(faceFreeze) ==
    IF "iLow" \in faceFreeze THEN LowLayers(0, 1)
    ELSE IF "iHigh" \in faceFreeze THEN HighLayers(0, 1)
    ELSE IF "jLow" \in faceFreeze THEN LowLayers(0, 2)
    ELSE IF "jHigh" \in faceFreeze THEN HighLayers(0, 2)
    ELSE IF "kLow" \in faceFreeze THEN LowLayers(0, 3)
    ELSE IF "kHigh" \in faceFreeze THEN HighLayers(0, 3)
    ELSE {}

\* embeded_volume(volID, u, v, w, mask)
embeded_volume(r, mask) ==
    [volID |-> r.volID, u |-> r.u, v |-> r.v, w |-> r.w, N |-> Len(r.u),
     mask |-> mask]

\* what attachPoints leaves: the exception raised ("" for none), the mask
\* returned and embeded_volumes
Attached(a, raised, ret, ev) ==
    [a EXCEPT !.called = TRUE, !.raised = raised, !.ret = ret,
              !.embeded_volumes = ev]

\* attachPoints(coordinates, index, interiorOnly, faceFreeze), r what
\* projectPoints returns for the coordinates.  In the faceFreeze branch
\* the local variable mask is read without having been assigned.
attachPoints(a, nV, coordinates, index, interiorOnly, faceFreeze, r) ==
    IF coordinates = None THEN Attached(a, "", {}, a.embeded_volumes)
    ELSE IF ~interiorOnly
    THEN Attached(a, "", {}, Put(a.embeded_volumes, index, embeded_volume(r, None)))
    ELSE IF faceFreeze = None
    THEN Attached(a, "", UNION { AutoFreeze(r, i, nV) : i \in 1..Len(r.D) },
                  Put(a.embeded_volumes, index,
                      embeded_volume(r, Some(InsideMask(r)))))
    ELSE IF nV > 1 THEN Attached(a, "SystemExit", {}, a.embeded_volumes)
    ELSE Attached(a, "UnboundLocalError", {}, a.embeded_volumes)

\* the coordinates handed over: None, no point, points inside, before and
\* after the block
CoordChoices(nV) ==
    { None, Some(<<>>), Some(<<1>>), Some(<<-3>>), Some(<<1, 4 * nV + 1>>) }

\* the faceFreeze argument: None or a list of face names
FaceFreezeChoices ==
    { None, Some({"iLow"}), Some({"kHigh"}), Some({"jLow", "iHigh"}) }

AttInit == BlkInit

\* pyBlock.attachPoints(coordinates, "pts", interiorOnly, faceFreeze)
AttachPoints(coordinates, interiorOnly, faceFreeze) ==
    /\ attach' = attachPoints(
                     [attach EXCEPT !.given = coordinates # None,
                                    !.interiorOnly = interiorOnly,
                                    !.faceFreeze = faceFreeze],
                     nVol, coordinates, "pts", interiorOnly, faceFreeze,
                     IF coordinates = None THEN NoProj
                     ELSE projectPoints(
                            [i \in 1..Len(coordinates[1]) |->
                                <<coordinates[1][i], 0, 0>>],
                            nVol, ~interiorOnly))
    /\ UNCHANGED <<nVol, proj>>
    /\ UNCHANGED conVars
    /\ UNCHANGED regVars
    /\ UNCHANGED hexVars

AttNext ==
    \E coordinates \in CoordChoices(nVol), interiorOnly \in BOOLEAN,
       faceFreeze \in FaceFreezeChoices :
        AttachPoints(coordinates, interiorOnly, faceFreeze)

SpecAtt == AttInit /\ [][AttNext]_vars

---------------------------------------------------------------------------
(* Claims about the constraint objects, checked under Spec *)

Evaluated == con.name \in DOMAIN funcs
SensEvaluated == con.name \in DOMAIN funcsSens

\* the two points whose distance is the thickness of station i
ThicknessEnds(c, pts, i) ==
    IF c.kind = "thickness" THEN <<pts[2 * i - 1], pts[2 * i]>>
    ELSE <<pts[4 * i - 3], pts[4 * i - 2]>>

\* C1: the reference value (D0, ToC0, V0) of a thickness, thickness-to-chord
\* or volume constraint is assigned only in the constructor: whatever calls
\* of evalFunctions, evalFunctionsSens, addConstraintsPyOpt and writeTecplot
\* and whatever geometry changes have happened, it is the value computed
\* from the coordinates the constraint was constructed on.
C1_ReferenceFixedAtConstruction ==
    /\ con.kind = "thickness" =>
          con.D0 = [i \in 1..con.nCon |->
                      norm(DVGeo.points[2 * i - 1], DVGeo.points[2 * i])]
    /\ con.kind = "toc" =>
          con.ToC0 = [i \in 1..con.nCon |->
                        RootDiv(norm(DVGeo.points[4 * i - 3], DVGeo.points[4 * i - 2]),
                                norm(DVGeo.points[4 * i - 1], DVGeo.points[4 * i]))]
    /\ con.kind = "volume" =>
          con.V0 = Abs(RawVolume(DVGeo.points, con.nSpan, con.nChord))

\* C1 witness: a thickness constraint that has been through all four calls
\* and now holds coordinates whose first thickness is not the reference one
C1_Witness ==
    /\ con.kind = "thickness"
    /\ Evaluated /\ SensEvaluated /\ optProb.called /\ handle.written
    /\ con.coords # DVGeo.points
    /\ norm(con.coords[1], con.coords[2]) # con.D0[1]

\* C2: for the coordinates a VolumeConstraint holds, evalVolumeSens negates
\* the raw gradient exactly when the raw summed hexahedron volume of those
\* coordinates is negative.
C2_GradientNegatedIffRawNegative ==
    con.kind = "volume" =>
        evalVolumeSens(con.coords, con.nSpan, con.nChord, con.flipVolume)
            = SixthAndFlip(RawVolumeSens(con.coords, con.nSpan, con.nChord),
                           RawVolume(con.coords, con.nSpan, con.nChord) < 0)

\* the last evalFunctions pulled the coordinates the constraint was
\* constructed on, and every station has a non-zero thickness there
AtConstructionGeometry ==
    /\ con.kind \in {"thickness", "toc"}
    /\ Evaluated
    /\ con.coords = DVGeo.points
    /\ \A i \in 1..con.nCon :
          LET e == ThicknessEnds(con, DVGeo.points, i)
          IN  norm(e[1], e[2]) # RootZero

\* C3: evaluated on the coordinates it was constructed on, every station of
\* non-zero thickness, a ThicknessConstraint with scaled = True and a
\* ThicknessToChordConstraint store exactly 1.0 for every station.
C3_OneAtConstructionGeometry ==
    (AtConstructionGeometry /\ (con.kind = "thickness" => con.scaled))
        => \A i \in 1..con.nCon : funcs[con.name][i] = RootOne

\* C3 witness: a scaled thickness constraint whose reference lengths are
\* not 1 was evaluated on its construction coordinates
C3_Witness ==
    /\ AtConstructionGeometry
    /\ con.kind = "thickness" /\ con.scaled
    /\ \A i \in 1..con.nCon : con.D0[i] # RootOne

\* C4: when evalFunctions is called twice with no change of DVGeo's points
\* or design variable in between, the second call stores under the
\* constraint's name the values the first call stored.
C4_RepeatedEvalFunctionsAgree ==
    DOMAIN prev # {} => funcs = prev

\* C4 witness: a volume constraint evaluated twice on a changed geometry
\* whose raw volume is negative
C4_Witness ==
    /\ DOMAIN prev # {}
    /\ con.kind = "volume" /\ con.scaled
    /\ con.coords # DVGeo.points
    /\ RawVolume(con.coords, con.nSpan, con.nChord) < 0

\* the positions (from 0) at which index ind occurs in a coefList
Positions(coefList, ind) ==
    {k - 1 : k \in {m \in 1..Len(coefList) : coefList[m][1] = ind}}

Last(S) == CHOOSE m \in S : \A x \in S : x <= m

\* the index pairs j, in order, both of whose indices occur in the group
MatchedPairs(grp) ==
    LET Both(j) == /\ Positions(grp.coefList, con.indSetA[j]) # {}
                   /\ Positions(grp.coefList, con.indSetB[j]) # {}
    IN  SelectSeq([j \in 1..Len(con.indSetA) |-> j], Both)

\* the jacobian row of pair j in a group: nVal columns, 1.0 at the last
\* positions of the two indices, zero everywhere else
RowOfPair(row, grp, j) ==
    LET a == Last(Positions(grp.coefList, con.indSetA[j]))
        b == Last(Positions(grp.coefList, con.indSetB[j]))
    IN  /\ DOMAIN row = 0..(grp.nVal - 1)
        /\ \A col \in DOMAIN row : row[col] = IF col \in {a, b} THEN 1 ELSE 0

\* the number of entries equal to 1.0 in a row
Ones(row) == Cardinality({col \in DOMAIN row : row[col] = 1})

\* the jacobian of a group with matched pairs has one row per matched pair,
\* in pair order
RowsInPairOrder(grp) ==
    LET M == MatchedPairs(grp)
    IN  M # <<>> =>
          /\ grp.key \in DOMAIN con.jac
          /\ Len(con.jac[grp.key]) = Len(M)
          /\ \A r \in 1..Len(M) : RowOfPair(con.jac[grp.key][r], grp, M[r])

\* C9 as stated: for every group, one jacobian row per matched pair, in pair
\* order, over nVal columns, with exactly two entries equal to 1.0, at the
\* last positions of the two indices, and zero everywhere else.
C9_TwoOnesPerRow ==
    con.kind = "lete" =>
        \A n \in 1..Len(DVGeo.DV_listLocal) :
            /\ RowsInPairOrder(DVGeo.DV_listLocal[n])
            /\ DVGeo.DV_listLocal[n].key \in DOMAIN con.jac =>
                  \A r \in 1..Len(con.jac[DVGeo.DV_listLocal[n].key]) :
                      Ones(con.jac[DVGeo.DV_listLocal[n].key][r]) = 2

\* C9 amended: as C9, but a row holds two entries equal to 1.0 when
\* indSetA[j] and indSetB[j] differ and a single one when they are the
\* same index.
C9_OnesAtTheLastPositions ==
    con.kind = "lete" =>
        \A n \in 1..Len(DVGeo.DV_listLocal) :
            LET grp == DVGeo.DV_listLocal[n]
                M == MatchedPairs(grp)
            IN  /\ RowsInPairOrder(grp)
                /\ \A r \in 1..Len(M) :
                      Ones(con.jac[grp.key][r]) =
                          IF con.indSetA[M[r]] = con.indSetB[M[r]] THEN 1 ELSE 2

\* C9 witness: the pairs (0, 1) and (2, 3), both in the one group over the
\* control points 0..3, give the rows (1 1 0 0) and (0 0 1 1)
C9_Witness ==
    /\ con.kind = "lete"
    /\ Len(DVGeo.DV_listLocal) = 1
    /\ con.indSetA = <<0, 2>> /\ con.indSetB = <<1, 3>>
    /\ con.jac["g1"] = << [col \in 0..3 |-> IF col \in {0, 1} THEN 1 ELSE 0],
                          [col \in 0..3 |-> IF col \in {2, 3} THEN 1 ELSE 0] >>

\* C10: a pair matched by no group adds no row: ncon is the number of
\* (group, pair) matches and also the number of jacobian rows, a group
\* without a match has no entry in jac or wrt, and when ncon is 0
\* addConstraintsPyOpt adds nothing to the problem.
C10_UnmatchedPairsAddNothing ==
    con.kind = "lete" =>
        /\ con.ncon = SumSeq([n \in 1..Len(DVGeo.DV_listLocal) |->
                                Len(MatchedPairs(DVGeo.DV_listLocal[n]))])
        /\ con.ncon = SumSeq([k \in 1..Len(con.wrt) |-> Len(con.jac[con.wrt[k]])])
        /\ \A n \in 1..Len(DVGeo.DV_listLocal) :
              MatchedPairs(DVGeo.DV_listLocal[n]) = <<>> =>
                  /\ DVGeo.DV_listLocal[n].key \notin DOMAIN con.jac
                  /\ \A k \in 1..Len(con.wrt) :
                        con.wrt[k] # DVGeo.DV_listLocal[n].key
        /\ (optProb.called /\ con.ncon = 0) => optProb.cons = <<>>

\* C10 witness: index pairs were handed over, none is matched by a group,
\* and addConstraintsPyOpt has been called
C10_Witness ==
    /\ con.kind = "lete"
    /\ Len(con.indSetA) > 0 /\ con.ncon = 0
    /\ optProb.called

\* the entries expected in funcs for the first n groups of DV_listLocal: for
\* each matched pair of each group, in order, value[up] + value[down]; with
\* once set, value[up] alone when the pair names one index twice
RECURSIVE ExpectedCons(_, _)
ExpectedCons(n, once) ==
    IF n = 0 THEN <<>>
    ELSE LET grp == DVGeo.DV_listLocal[n]
             M == MatchedPairs(grp)
             value == DVGeo_value(DVGeo, grp)
             up(j) == Last(Positions(grp.coefList, con.indSetA[j]))
             down(j) == Last(Positions(grp.coefList, con.indSetB[j]))
         IN  ExpectedCons(n - 1, once)
             \o [r \in 1..Len(M) |->
                    IF once /\ con.indSetA[M[r]] = con.indSetB[M[r]]
                    THEN value[up(M[r]) + 1]
                    ELSE value[up(M[r]) + 1] + value[down(M[r]) + 1]]

\* funcs holds what evalFunctions stored at DVGeo's present design variable
EvaluatedHere == Evaluated /\ evalAt = <<DVGeo.dv>>

\* when ncon > 0, addConstraintsPyOpt adds one linear group of ncon
\* constraints with lower = upper = 0
LinearGroup ==
    (optProb.called /\ con.ncon > 0) =>
        /\ Len(optProb.cons) = 1
        /\ optProb.cons[1].call = "addConGroup"
        /\ optProb.cons[1].name = con.name
        /\ optProb.cons[1].nCon = con.ncon
        /\ optProb.cons[1].linear
        /\ optProb.cons[1].lower = 0 /\ optProb.cons[1].upper = 0
        /\ optProb.cons[1].wrt = con.wrt /\ optProb.cons[1].jac = con.jac

\* C11 as stated: evalFunctions of a LeTeConstraint stores the vector of
\* length ncon that holds, group by group in the order of wrt, for each
\* matched pair value[up] + value[down]; the constraint is registered as a
\* linear group with lower = upper = 0.
C11_SumOfTheTwoValues ==
    con.kind = "lete" =>
        /\ EvaluatedHere =>
              /\ Len(funcs[con.name]) = con.ncon
              /\ funcs[con.name] = ExpectedCons(Len(DVGeo.DV_listLocal), FALSE)
        /\ LinearGroup

\* C11 amended: as C11, but the entry of a matched pair is
\* value[up] + value[down] when indSetA[j] and indSetB[j] differ and
\* value[up] when they are the same index.
C11_JacobianTimesValues ==
    con.kind = "lete" =>
        /\ EvaluatedHere =>
              /\ Len(funcs[con.name]) = con.ncon
              /\ funcs[con.name] = ExpectedCons(Len(DVGeo.DV_listLocal), TRUE)
        /\ LinearGroup

\* C11 witness: two groups have matched pairs, the design variables are not
\* zero, the values were stored and the constraint registered
C11_Witness ==
    /\ con.kind = "lete" /\ EvaluatedHere /\ optProb.called
    /\ Len(con.wrt) = 2 /\ DVGeo.dv # 0
    /\ funcs[con.name][1] # funcs[con.name][con.ncon]

\* movements of the nVal local design variables of a group
Movements(grp) == [0..(grp.nVal - 1) -> {-1, 0, 1}]

\* row r of the registered linear group, with lower = upper = 0, admits the
\* movement x
Admits(key, r, x) ==
    LET row == optProb.cons[1].jac[key][r]
        rowX == SumSeq([k \in 1..Cardinality(DOMAIN x) |->
                           row[k - 1] * x[k - 1]])
    IN  optProb.cons[1].lower <= rowX /\ rowX <= optProb.cons[1].upper

\* the registered LE/TE group has one row per matched pair of each group,
\* and the row of pair j admits exactly the movements x for which
\* x1 + sign * x2 = 0, x1 and x2 being the movements of the design
\* variables of the two control points of the pair
RowsEnforce(sign) ==
    (con.kind = "lete" /\ optProb.called /\ con.ncon > 0) =>
        \A n \in 1..Len(DVGeo.DV_listLocal) :
            LET grp == DVGeo.DV_listLocal[n]
                M == MatchedPairs(grp)
            IN  \A r \in 1..Len(M) : \A x \in Movements(grp) :
                    LET x1 == x[Last(Positions(grp.coefList, con.indSetA[M[r]]))]
                        x2 == x[Last(Positions(grp.coefList, con.indSetB[M[r]]))]
                    IN  Admits(grp.key, r, x) <=> (x1 + sign * x2 = 0)

C19_NoSensitivityWithoutDesignVariables ==
    (/\ con.kind \in {"thickness", "toc", "volume"}
     /\ DVGeo_getNDV(DVGeo) = 0
     /\ sensLog.called) =>
        /\ sensLog.calls = <<"getNDV">>
        /\ con.name \notin DOMAIN funcsSens
        /\ funcsSens = EmptyDict

\* C19 witness: evalFunctionsSens of a volume constraint has run on a
\* DVGeo without design variables
C19_Witness ==
    /\ con.kind = "volume" /\ DVGeo_getNDV(DVGeo) = 0
    /\ sensLog.called

\* the index pairs that produced jacobian rows, in the order of the rows:
\* group after group (the first n groups), pair order within a group
RECURSIVE MatchedUpTo(_)
MatchedUpTo(n) ==
    IF n = 0 THEN <<>>
    ELSE MatchedUpTo(n - 1) \o MatchedPairs(DVGeo.DV_listLocal[n])

\* C26: writeTecplot of a LeTeConstraint raises nothing (it reads indSetA
\* and indSetB within range) and writes exactly ncon line segments, the
\* i-th joining the FFD control points of the i-th matched index pair,
\* whatever pairs are matched or dropped and whatever the groups.
C26_OneSegmentPerMatchedPair ==
    (con.kind = "lete" /\ handle.written) =>
        LET M == MatchedUpTo(Len(DVGeo.DV_listLocal))
        IN  /\ handle.raised = ""
            /\ Len(M) = con.ncon
            /\ Len(handle.lines) = 3 + 3 * con.ncon
            /\ \A i \in 1..con.ncon :
                  /\ handle.lines[3 + 2 * i - 1].args = DVGeo.coef[con.indSetA[M[i]]]
                  /\ handle.lines[3 + 2 * i].args = DVGeo.coef[con.indSetB[M[i]]]
                  /\ handle.lines[3 + 2 * con.ncon + i].args = <<2 * i - 1, 2 * i>>

\* C21: the flipVolume flag of a VolumeConstraint is changed only during
\* construction: no step after construction (evalFunctions,
\* evalFunctionsSens, addConstraintsPyOpt, writeTecplot, a change of the
\* design variables) leaves it with another value.
C21_FlipVolumeFixedAtConstruction ==
    [][con.kind = "volume" => con'.flipVolume = con.flipVolume]_vars

\* C22: evalFunctionsSens of a thickness, thickness-to-chord or volume
\* constraint hands to totalSensitivity the derivatives at the coordinates
\* the object holds (those of the most recent evalFunctions, or of the
\* construction), and leaves the object, its coordinates included, as it
\* was: it pulls nothing from DVGeo.
C22_GradientAtStoredCoordinates ==
    [][(/\ con.kind \in {"thickness", "toc", "volume"}
        /\ sensLog'.called
        /\ sensLog' # sensLog \/ funcsSens' # funcsSens) =>
            /\ con' = con
            /\ "update" \notin {sensLog'.calls[k] : k \in 1..Len(sensLog'.calls)}
            /\ DVGeo.nDV > 0 =>
                  funcsSens'[con.name] = DVGeo_totalSensitivity(DVGeo, dIdpt(con))]_vars

\* C22 witness: after a geometry update, evalFunctionsSens has stored a
\* gradient that is the one at the stored coordinates and not the one at
\* the coordinates DVGeo.update returns now
C22_Witness ==
    /\ con.kind \in {"thickness", "toc", "volume"}
    /\ SensEvaluated
    /\ con.coords # DVGeo_update(DVGeo)
    /\ funcsSens[con.name] = DVGeo_totalSensitivity(DVGeo, dIdpt(con))
    /\ funcsSens[con.name]
          # DVGeo_totalSensitivity(DVGeo, dIdptAt(con, DVGeo_update(DVGeo)))

---------------------------------------------------------------------------
(* Claims about the registry, checked under SpecReg *)

ThickOps ==
    { "addThicknessConstraints2D", "addThicknessConstraints1D",
      "addThicknessToChordConstraints1D" }
ProjectingOps == ThickOps \cup { "addVolumeConstraint" }
AddOps == ProjectingOps \cup { "addLeTeConstraints" }

\* the collection an add* call stores into, before and after the step
Before(op) ==
    IF op \in ThickOps THEN thickCon
    ELSE IF op = "addVolumeConstraint" THEN volumeCon ELSE LeTeCon
After(op) ==
    IF op \in ThickOps THEN thickCon'
    ELSE IF op = "addVolumeConstraint" THEN volumeCon' ELSE LeTeCon'

\* collection e is collection d with one entry appended under a new key
Appended(d, e) ==
    /\ Len(e) = Len(d) + 1
    /\ SubSeq(e, 1, Len(d)) = d
    /\ ~ODHas(d, e[Len(e)][1])

\* the step is an add* call that returned without raising
AddReturned == call'.op \in AddOps /\ call'.raised = ""

\* the three collections are as they were
RegistryKept == UNCHANGED <<thickCon, volumeCon, LeTeCon>>

\* C13: an add* call with name=None that returns stores its constraint under
\* a key that was not in its collection before the call.
C13_DefaultNameIsNew ==
    [][(AddReturned /\ call'.name = None) =>
          /\ Len(After(call'.op)) > 0
          /\ \E k \in 1..Len(After(call'.op)) :
                /\ ~ODHas(Before(call'.op), After(call'.op)[k][1])
                /\ After(call'.op)[k][2].name = After(call'.op)[k][1]]_vars

\* C14: the collections are append-only: an add* call that returns appends
\* one entry under a new key to the collection of its kind and leaves every
\* entry that was there, and the other two collections, as they were; no
\* other step changes a collection.
C14_AppendOnly ==
    [][/\ AddReturned =>
            /\ Appended(Before(call'.op), After(call'.op))
            /\ \A op \in AddOps :
                  Before(op) # Before(call'.op) => After(op) = Before(op)
       /\ ~AddReturned => RegistryKept]_vars

\* the faceID of the call names no face of the block
FaceIDs == { "ilow", "ihigh", "jlow", "jhigh", "klow", "khigh" }
UnknownFace(c) == c.args.faceID # None /\ Lower(c.args.faceID[1]) \notin FaceIDs

\* both index sets are given and their lengths differ
LengthsDiffer(c) ==
    /\ c.args.indSetA # None /\ c.args.indSetB # None
    /\ Len(c.args.indSetA[1]) # Len(c.args.indSetB[1])

\* volID and faceID are both given
FaceGiven(c) == c.args.volID # None /\ c.args.faceID # None

\* neither (volID, faceID) nor (indSetA, indSetB) is given in full
NothingGiven(c) ==
    /\ ~FaceGiven(c)
    /\ ~(c.args.indSetA # None /\ c.args.indSetB # None)

\* the step is a call that raised Error and left the collections alone
RaisedError == call'.raised = "Error" /\ RegistryKept

\* C15 as stated: every add* call made while no DVGeo is set, and every
\* addLeTeConstraints call with an unknown faceID, with index sets of
\* different lengths, or with neither pair of arguments, raises Error and
\* leaves thickCon, volumeCon and LeTeCon unchanged.
C15_ConfigurationErrorsAnyArguments ==
    [][/\ (call'.op \in AddOps /\ selfDVGeo = None) => RaisedError
       /\ (/\ call'.op = "addLeTeConstraints"
           /\ \/ UnknownFace(call')
              \/ LengthsDiffer(call')
              \/ NothingGiven(call')) => RaisedError]_vars

\* C15 amended: every add* call made while no DVGeo is set, and every
\* addLeTeConstraints call with a volID and an unknown faceID, with index
\* sets of different lengths and not both of volID and faceID, or with
\* neither pair of arguments, raises Error and leaves thickCon, volumeCon
\* and LeTeCon unchanged.
C15_ConfigurationErrors ==
    [][/\ (call'.op \in AddOps /\ selfDVGeo = None) => RaisedError
       /\ (/\ call'.op = "addLeTeConstraints"
           /\ \/ FaceGiven(call') /\ UnknownFace(call')
              \/ ~FaceGiven(call') /\ LengthsDiffer(call')
              \/ NothingGiven(call')) => RaisedError]_vars

\* C15 witness: with a DVGeo set and a constraint stored, an
\* addLeTeConstraints call with index sets of different lengths has raised
C15_Witness ==
    /\ selfDVGeo # None /\ Len(LeTeCon) > 0
    /\ call.op = "addLeTeConstraints" /\ call.raised = "Error"
    /\ ~FaceGiven(call) /\ LengthsDiffer(call)

\* the shape of the face faceID of volume volID: the two dimensions of the
\* index block that the face keeps
FaceShape(volID, faceID) ==
    CASE Lower(faceID) \in {"ilow", "ihigh"} ->
            <<LIndexShape(volID)[2], LIndexShape(volID)[3]>>
      [] Lower(faceID) \in {"jlow", "jhigh"} ->
            <<LIndexShape(volID)[1], LIndexShape(volID)[3]>>
      [] Lower(faceID) \in {"klow", "khigh"} ->
            <<LIndexShape(volID)[1], LIndexShape(volID)[2]>>

\* the call names a face of a volume of the FFD on a registry with a DVGeo
KnownFaceCall(c) ==
    /\ c.op = "addLeTeConstraints"
    /\ FaceGiven(c) /\ ~UnknownFace(c)

\* the two index rows of face F along its dimension d (1 or 2) of length 2
IndexRows(F, d) ==
    IF d = 1 THEN <<F[1], F[2]>>
    ELSE << [r \in 1..Len(F) |-> F[r][1]], [r \in 1..Len(F) |-> F[r][2]] >>

\* C23: addLeTeConstraints called with volID and faceID (a DVGeo set, the
\* faceID that of a face) stores a constraint exactly when one, and only
\* one, of the two dimensions of the selected face equals 2, with the two
\* index rows along that dimension as indSetA and indSetB, and raises
\* Error, the collections left alone, otherwise.
C23_FaceAcceptedIffOneDimensionIsTwo ==
    [][(KnownFaceCall(call') /\ selfDVGeo # None) =>
          LET shp == FaceShape(call'.args.volID[1], call'.args.faceID[1])
              F == Face(call'.args.volID[1], call'.args.faceID[1])
              twos == {d \in 1..2 : shp[d] = 2}
              key == ConName(call'.name, "lete_constraint_", LeTeCon)
          IN  IF Cardinality(twos) = 1
              THEN /\ call'.raised = ""
                   /\ \E k \in 1..Len(LeTeCon') :
                         /\ LeTeCon'[k][1] = key
                         /\ \A d \in twos :
                               /\ LeTeCon'[k][2].indSetA = IndexRows(F, d)[1]
                               /\ LeTeCon'[k][2].indSetB = IndexRows(F, d)[2]
              ELSE RaisedError]_vars

\* C23 witness: the 3 x 2 face iLow of volume 1 was accepted with its two
\* columns as index sets, and the last call, on a face of 3 x 3, has raised
C23_Witness ==
    /\ call.op = "addLeTeConstraints" /\ FaceGiven(call) /\ ~UnknownFace(call)
    /\ FaceShape(call.args.volID[1], call.args.faceID[1]) = <<3, 3>>
    /\ call.raised = "Error"
    /\ \E k \in 1..Len(LeTeCon) :
          /\ LeTeCon[k][2].indSetA = <<12, 14, 16>>
          /\ LeTeCon[k][2].indSetB = <<13, 15, 17>>

\* C24: addThicknessToChordConstraints1D does not modify the chordDir
\* array the caller handed over: after the call the caller's array holds
\* the values it held before, so that a repeated call with the same array
\* is handed the same direction values.
C24_ChordDirNotModified ==
    [][call'.op = "addThicknessToChordConstraints1D"
          => callerChordDir' = callerChordDir]_vars

\* the least element of a set of numbers
Least(S) == CHOOSE m \in S : \A x \in S : m <= x

\* the call reaches its projection loop: a DVGeo is set and the bound
\* arguments were converted
Projects(c) ==
    /\ c.op \in ProjectingOps
    /\ selfDVGeo # None
    /\ c.op = "addThicknessConstraints2D" =>
          convertTo2D(c.args.lower, c.args.nSpan, c.args.nChord).raised = ""

\* C16: in the four projecting add* calls, the first sample node whose
\* projection fails makes the call raise Error: the nodes projected are
\* those up to that node and no later one, no point set is registered with
\* DVGeo and no constraint is added to a collection.
C16_FirstFailedProjectionRaises ==
    [][(Projects(call') /\ call'.args.fails # {}) =>
          /\ call'.raised = "Error"
          /\ call'.projected =
                [k \in 1..Least(call'.args.fails) |-> k]
          /\ ptSets' = ptSets
          /\ RegistryKept]_vars

\* C16 witness: an addVolumeConstraint call on a surface whose second and
\* fourth sample nodes fail has raised after two projections, with a
\* constraint already stored
C16_Witness ==
    /\ call.op = "addVolumeConstraint" /\ call.args.fails = {2, 4}
    /\ call.raised = "Error" /\ call.projected = <<1, 2>>
    /\ Len(thickCon) > 0

\* the shape is that of an array that is not dim1 x dim2
WrongShape2D(shape, dim1, dim2) == shape # <<>> /\ shape # <<dim1, dim2>>

\* C17: a lower argument that is a non-scalar array of the wrong shape makes
\* addThicknessConstraints2D raise Error and create no constraint, and
\* _convertTo1D(value, dim1) raises Error for a non-scalar value whose
\* length is not dim1.
C17_WrongShapeRaisesError ==
    [][/\ (/\ call'.op = "addThicknessConstraints2D"
           /\ selfDVGeo # None
           /\ WrongShape2D(call'.args.lower, call'.args.nSpan,
                           call'.args.nChord)) =>
              (RaisedError /\ ptSets' = ptSets)
       /\ (/\ call'.op = "_convertTo1D"
           /\ call'.args.shape # <<>>
           /\ call'.args.shape # <<call'.args.dim1>>) =>
              call'.raised = "Error"]_vars

\* the <<method, name>> pairs of the calls expected from the first n
\* entries of a collection, in order: one for each entry whose addToPyOpt
\* flag is set or, in the LE/TE collection, whose ncon is positive
RECURSIVE ExpectedCalls(_, _, _, _)
ExpectedCalls(d, method, byFlag, n) ==
    IF n = 0 THEN <<>>
    ELSE ExpectedCalls(d, method, byFlag, n - 1)
         \o (IF (IF byFlag THEN d[n][2].addToPyOpt ELSE d[n][2].ncon > 0)
             THEN << <<method, d[n][1]>> >> ELSE <<>>)

\* C18: addConstraintsPyOpt calls addConGroup (thickness, thickness to
\* chord) or addCon (volume) once for each stored constraint whose
\* addToPyOpt flag is True and never for one whose flag is False, the
\* thickness collection first, then the volume collection, then the LE/TE
\* collection, each in insertion order.
C18_OneCallPerFlaggedConstraintInOrder ==
    call.op = "addConstraintsPyOpt" =>
        [k \in 1..Len(call.added) |-> <<call.added[k].call, call.added[k].name>>]
        = ExpectedCalls(thickCon, "addConGroup", TRUE, Len(thickCon))
          \o ExpectedCalls(volumeCon, "addCon", TRUE, Len(volumeCon))
          \o ExpectedCalls(LeTeCon, "addConGroup", FALSE, Len(LeTeCon))

\* C18 witness: a volume constraint was stored before a thickness
\* constraint, both with the flag set, and addConstraintsPyOpt has called
\* addConGroup for the thickness constraint, then addCon for the volume one
C18_Witness ==
    /\ call.op = "addConstraintsPyOpt"
    /\ Len(thickCon) = 1 /\ Len(volumeCon) = 1
    /\ ptSets[1] = volumeCon[1][1]
    /\ Len(call.added) = 2
    /\ call.added[1].call = "addConGroup" /\ call.added[2].call = "addCon"

---------------------------------------------------------------------------
(* Claims about the triangle soup, checked under SpecSurf *)

\* the parameter values of patch s of the wing last set, and its cells
SoupU(s) == fill_knots(soup.wing.surfs[s].tu, soup.wing.surfs[s].ku, 1)
SoupV(s) == fill_knots(soup.wing.surfs[s].tv, soup.wing.surfs[s].kv, 1)
SoupCells(s) == (Len(SoupU(s)) - 1) * (Len(SoupV(s)) - 1)

\* the number of cells of the first n patches
RECURSIVE CellsUpTo(_)
CellsUpTo(n) == IF n = 0 THEN 0 ELSE CellsUpTo(n - 1) + SoupCells(n)

\* the three vertices of triangle q of the soup
Vertices(q) ==
    { soup.p0[q], VAdd(soup.p0[q], soup.v1[q]), VAdd(soup.p0[q], soup.v2[q]) }

\* the triangles q and q + 1 are those of cell (i, j) of patch s
CellEmitted(s, i, j, q) ==
    LET P0 == surfEval(soup.wing.surfs[s], SoupU(s)[i + 1], SoupV(s)[j + 1])
        P1 == surfEval(soup.wing.surfs[s], SoupU(s)[i + 2], SoupV(s)[j + 1])
        P2 == surfEval(soup.wing.surfs[s], SoupU(s)[i + 1], SoupV(s)[j + 2])
        P3 == surfEval(soup.wing.surfs[s], SoupU(s)[i + 2], SoupV(s)[j + 2])
    IN  /\ soup.p0[q] = P0
        /\ soup.v1[q] = VSub(P1, P0) /\ soup.v2[q] = VSub(P2, P0)
        /\ soup.p0[q + 1] = P3
        /\ soup.v1[q + 1] = VSub(P2, P3) /\ soup.v2[q + 1] = VSub(P1, P3)
        /\ Vertices(q) \cap Vertices(q + 1) = {P1, P2}
        /\ Vertices(q) \cup Vertices(q + 1) = {P0, P1, P2, P3}

\* C25: _generateDiscreteSurface emits, for every cell (i, j) of every
\* patch, exactly two triangles, (P0; P1-P0, P2-P0) and (P3; P2-P3, P1-P3),
\* which share the diagonal P1-P2 and together have the 4 corners of the
\* cell as vertices; p0, v1 and v2 have the same length, twice the total
\* number of cells; a wing without patches yields empty lists.
C25_TwoTrianglesPerCell ==
    soup.set =>
        /\ Len(soup.p0) = 2 * CellsUpTo(soup.wing.nSurf)
        /\ Len(soup.v1) = Len(soup.p0) /\ Len(soup.v2) = Len(soup.p0)
        /\ \A s \in 1..soup.wing.nSurf :
              \A i \in 0..(Len(SoupU(s)) - 2), j \in 0..(Len(SoupV(s)) - 2) :
                  CellEmitted(s, i, j,
                              2 * CellsUpTo(s - 1)
                                + 2 * (i * (Len(SoupV(s)) - 1) + j) + 1)
        /\ soup.wing.nSurf = 0 =>
              soup.p0 = <<>> /\ soup.v1 = <<>> /\ soup.v2 = <<>>

\* C25 witness: a wing of two patches was set, the first of 2 x 4 cells,
\* the second twisted, and the soup holds 24 triangles
C25_Witness ==
    /\ soup.set /\ soup.wing.nSurf = 2
    /\ SoupCells(1) = 8 /\ Len(SoupU(1)) = 3
    /\ soup.wing.surfs[2].twist = 1 /\ SoupCells(2) = 4
    /\ Len(soup.p0) = 24

---------------------------------------------------------------------------
(* Claims about pyBlock.projectPoints, checked under SpecBlk *)

\* the squared distance of point i of the last call from volume iVol
Dist2(i, iVol) ==
    Dot(projectPoint(iVol, proj.x0[i]).D, projectPoint(iVol, proj.x0[i]).D)

\* C20: for each point, projectPoints returns the parameters and the offset
\* of the projection into the volume volID it names, and that volume is
\* one whose distance is below 50 * eps or else one of smallest distance
\* among all nVol volumes.
C20_WithinToleranceOrClosest ==
    \A i \in 1..Len(proj.x0) :
        /\ proj.volID[i] \in 0..(nVol - 1)
        /\ projectPoint(proj.volID[i], proj.x0[i])
              = [u |-> proj.u[i], v |-> proj.v[i], w |-> proj.w[i],
                 D |-> proj.D[i]]
        /\ \/ Dist2(i, proj.volID[i]) < Tol * Tol
           \/ \A iVol \in 0..(nVol - 1) :
                 Dist2(i, proj.volID[i]) <= Dist2(i, iVol)

\* C20 witness: two points were projected into a block of two volumes, the
\* first inside volume 1, the second before the block, farther than the
\* tolerance from volume 0, which is the closest
C20_Witness ==
    /\ nVol = 2 /\ Len(proj.x0) = 2
    /\ proj.volID = <<1, 0>>
    /\ Dist2(1, 1) = 0
    /\ Dist2(2, 0) > Tol * Tol

C28_CheckErrorsOnlyWarns ==
    proj.checkErrors =>
        LET r == projectPoints(proj.x0, nVol, FALSE)
            n == Cardinality({i \in 1..Len(proj.x0) :
                                Dot(proj.D[i], proj.D[i]) > Tol * Tol})
        IN  /\ proj.raised = ""
            /\ r.warning = None
            /\ proj.volID = r.volID /\ proj.D = r.D
            /\ proj.u = r.u /\ proj.v = r.v /\ proj.w = r.w
            /\ proj.warning = IF n = 0 THEN None ELSE Some(n)

\* C28 witness: of two points checked, one lies at exactly 50 * eps from
\* the block and one farther: the warning counts one point
C28_Witness ==
    /\ proj.checkErrors /\ Len(proj.x0) = 2
    /\ Dot(proj.D[1], proj.D[1]) = Tol * Tol
    /\ NormAbove(proj.D[2], Tol)
    /\ proj.warning = Some(1)

\* C30: after every processed point vol_list is a permutation of
\* 0..nVol-1 whose first element is the last volume tried for that point.
C30_VolListPermutation ==
    \A i \in 1..Len(proj.x0) :
        /\ Len(proj.lists[i]) = nVol
        /\ {proj.lists[i][k] : k \in 1..nVol} = 0..(nVol - 1)
        /\ proj.lists[i][1] = proj.last[i]

\* C30 witness: two points in a block of two volumes, the first in volume
\* 1 and the second in volume 0: the list is (1, 0), then (0, 1)
C30_Witness ==
    /\ nVol = 2 /\ Len(proj.x0) = 2
    /\ proj.volID = <<1, 0>>
    /\ proj.lists = << <<1, 0>>, <<0, 1>> >>

\* the two outermost layers of control points of the face named f
OuterLayers(f) ==
    CASE f = "iLow" -> LowLayers(0, 1) [] f = "iHigh" -> HighLayers(0, 1)
      [] f = "jLow" -> LowLayers(0, 2) [] f = "jHigh" -> HighLayers(0, 2)
      [] f = "kLow" -> LowLayers(0, 3) [] f = "kHigh" -> HighLayers(0, 3)

\* C29: attachPoints on a single-volume block with coordinates,
\* interiorOnly=True and a faceFreeze naming one or more faces completes,
\* records the embedded point set under index, and returns a mask that
\* is True exactly on the two outermost control-point layers of every
\* named face.
C29_FaceFreezeMask ==
    (/\ attach.called /\ nVol = 1 /\ attach.given /\ attach.interiorOnly
     /\ attach.faceFreeze # None) =>
        /\ attach.raised = ""
        /\ "pts" \in DOMAIN attach.embeded_volumes
        /\ attach.ret = UNION { OuterLayers(f) : f \in attach.faceFreeze[1] }

=============================================================================
